---- MODULE Spec2Model ----
(***************************************************************************)
(* Model of the Archer call agent (archer/backend/src): the per-call       *)
(* session context and the three tools that act on it -- verify_account,   *)
(* get_customer_options and process_payment -- together with the customer  *)
(* directory and the call repository they use (specification Spec), the   *)
(* telephony webhooks twilio_incoming and twilio_status acting on the call *)
(* table (specification WebhookSpec), and the media bridge between the     *)
(* telephony websocket and the voice-engine websocket (specification       *)
(* BridgeSpec, and FairBridgeSpec under the scheduling of the event loop). *)
(* Specification ConcurrentSpec splits verify_account and                  *)
(* add_transcript_entry at their awaits, so that calls interleave.         *)
(*                                                                         *)
(* Python values are modelled as tagged records so that None, booleans,    *)
(* strings, numbers and dicts stay distinguishable, as they are in the     *)
(* dynamically typed context dictionary.  Money is held in cents.          *)
(***************************************************************************)
EXTENDS Integers, Sequences, FiniteSets, TLC

VARIABLES
    context,    \* the session context dict threaded through the tools
    result,     \* the ToolResult of the last tool call, or the response of
                \* the last webhook request (or no result yet)
    call,       \* the last tool invocation or webhook request and its arguments
    call_repo,  \* the call repository ProcessPaymentTool was constructed with
    calls,      \* table calls: call_sid -> call record
    handler,        \* where handle_cartesia_stream stands
    websocket,      \* state of the telephony websocket
    cartesia_ws,    \* state of the voice-engine websocket, "None" before it exists
    stream_state,   \* the stream_state dict shared by the two loops
    twilio_task,    \* the task running _twilio_receive_loop
    cartesia_task,  \* the task running _cartesia_receive_loop
    twilio_in,      \* frames the telephony side has still to deliver
    twilio_out,     \* frames written to the telephony websocket
    cartesia_in,    \* messages of the voice engine not yet read
    cartesia_out,   \* chunks written to the voice-engine websocket
    engine,         \* the voice engine: behaviour, progress, who closed
    reports,        \* termination reports made to the call lifecycle
    coroutines,     \* the tool and repository calls suspended at an await,
                    \* each with the local variables it holds
    call_transcript_entries     \* table call_transcript_entries, in
                                \* insertion order

concurrent_vars == <<coroutines, call_transcript_entries>>
tool_vars == <<context, result, call, call_repo, calls, concurrent_vars>>
bridge_vars == <<handler, websocket, cartesia_ws, stream_state, twilio_task,
                 cartesia_task, twilio_in, twilio_out, cartesia_in,
                 cartesia_out, engine, reports>>
vars == <<tool_vars, bridge_vars>>

----------------------------------------------------------------------------
(* Python values *)

None == [t |-> "None"]
B(b) == [t |-> "bool", v |-> b]
I(n) == [t |-> "int", v |-> n]
S(s) == [t |-> "str", v |-> s]
F(c) == [t |-> "float", v |-> c]
Dec(c) == [t |-> "Decimal", v |-> c]
Uuid(u) == [t |-> "UUID", v |-> u]
D(f) == [t |-> "dict", v |-> f]

EmptyDict == [k \in {} |-> None]

\* bool(x): Python truthiness
Truthy(x) ==
    CASE x.t = "None" -> FALSE
      [] x.t = "bool" -> x.v
      [] x.t = "int" -> x.v # 0
      [] x.t = "float" -> x.v # 0
      [] x.t = "Decimal" -> x.v # 0
      [] x.t = "str" -> x.v # ""
      [] x.t = "dict" -> DOMAIN x.v # {}
      [] OTHER -> TRUE

\* dict.get(key, default)
Get(d, k, default) == IF k \in DOMAIN d THEN d[k] ELSE default

\* d[key] = value
Put(d, k, val) == [x \in (DOMAIN d) \cup {k} |-> IF x = k THEN val ELSE d[x]]

\* str(x)
Str(x) == IF x.t = "str" THEN x ELSE S(x.v)

\* float(x) succeeds on numbers and raises on None and other objects
FloatRaises(x) == x.t \notin {"int", "float", "Decimal", "bool"}
Float(x) == IF x.t = "bool" THEN F(IF x.v THEN 100 ELSE 0) ELSE F(x.v)

----------------------------------------------------------------------------
(* The customer directory (table customers) *)

Customers ==
    { [id |-> Uuid("c1"), phone_number |-> "+15551234", name |-> "Jane Doe",
       account_last_4 |-> "1234", postal_code |-> "90210",
       balance |-> Dec(60000), days_overdue |-> I(30)],
      [id |-> Uuid("c2"), phone_number |-> "+15550000", name |-> "Alice",
       account_last_4 |-> "9999", postal_code |-> "A1B2C3",
       balance |-> Dec(100000), days_overdue |-> I(120)],
      [id |-> Uuid("c3"), phone_number |-> "+15557777", name |-> "John",
       account_last_4 |-> "1234", postal_code |-> "A1B2C3",
       balance |-> Dec(25075), days_overdue |-> None],
      [id |-> Uuid("c4"), phone_number |-> "+15550004", name |-> "Dana",
       account_last_4 |-> "9999", postal_code |-> "90210",
       balance |-> Dec(-500), days_overdue |-> I(90)],
      [id |-> Uuid("c5"), phone_number |-> "+15550005", name |-> "Gus",
       account_last_4 |-> "9999", postal_code |-> "A1B2C3",
       balance |-> Dec(3), days_overdue |-> I(91)] }

\* CustomerRepository.verify_identity: the row matching all three columns.
\* scalar_one_or_none raises when more than one row matches; db_error is a
\* failure of the database session itself.
verify_identity(phone_number, account_last_4, postal_code, db_error) ==
    LET rows == {c \in Customers : /\ c.phone_number = phone_number
                                   /\ c.account_last_4 = account_last_4
                                   /\ c.postal_code = postal_code}
    IN  IF db_error \/ Cardinality(rows) > 1
        THEN [raised |-> TRUE]
        ELSE IF rows = {}
             THEN [raised |-> FALSE, found |-> FALSE]
             ELSE [raised |-> FALSE, found |-> TRUE,
                   customer |-> CHOOSE c \in rows : TRUE]

----------------------------------------------------------------------------
(* Tool results *)

NoResult == [kind |-> "none"]

\* ToolResult.__init__: should_end_call defaults to False, data to {}
ToolResult(success, message, should_end_call, data) ==
    [kind |-> "returned", success |-> success, message |-> message,
     should_end_call |-> should_end_call, data |-> data]

\* a message template with the values interpolated into it
Msg(id, fields) == [id |-> id, fields |-> fields]

----------------------------------------------------------------------------
(* Session creation *)

PhoneInputs == {""} \cup {c.phone_number : c \in Customers}
CustomerIdInputs == {"c2"}
CallSidInputs == {"", "CA1"}

\* ArcherCallAgent.initialize_context
initialize_context(customer_phone, customer_id, call_sid) ==
    [k \in {"customer_phone", "customer_id", "call_sid", "verified",
            "verification_attempts", "payment_options", "call_outcome"} |->
        CASE k = "customer_phone" -> S(customer_phone)
          [] k = "customer_id" -> S(customer_id)
          [] k = "call_sid" -> S(call_sid)
          [] k = "verified" -> B(FALSE)
          [] k = "verification_attempts" -> I(0)
          [] k = "payment_options" -> None
          [] k = "call_outcome" -> None]

NoCall == [tool |-> "none"]

\* the repository handed to ProcessPaymentTool.__init__: the CallRepository
\* the agent wires in, or a repository that offers update_call_metadata, the
\* method the tool calls
CallRepoInputs == {"CallRepository", "MetadataRepository"}

\* the call record initiate_call creates before the session is initialised
InitialCalls ==
    [sid \in {"CA1"} |->
        [customer_id |-> Uuid("c2"), call_type |-> "real_call",
         direction |-> "outbound", status |-> "in_progress",
         start_time |-> 0, end_time |-> None, duration_seconds |-> None,
         outcome |-> None, extra_data |-> EmptyDict]]

\* the coroutines that may run against one session, and one that is not
\* suspended anywhere
Coroutines == {"a", "b"}
Idle == [pc |-> "idle", locals |-> EmptyDict]

\* no call is suspended and no transcript entry has been written
NoConcurrency ==
    /\ coroutines = [t \in Coroutines |-> Idle]
    /\ call_transcript_entries = <<>>

\* no media stream is attached to the session
NoBridge ==
    /\ handler = "none"
    /\ websocket = "CONNECTING"
    /\ cartesia_ws = "None"
    /\ stream_state = [stream_sid |-> None, call_sid |-> None,
                       conversation_id |-> None]
    /\ twilio_task = [pc |-> "none", hold |-> <<>>]
    /\ cartesia_task = [pc |-> "none", hold |-> <<>>]
    /\ twilio_in = <<>>
    /\ twilio_out = <<>>
    /\ cartesia_in = <<>>
    /\ cartesia_out = <<>>
    /\ engine = [scenario |-> "none", mode |-> "none", may_close |-> FALSE,
                 echoed |-> 0, sent |-> 0, closed_by |-> "nobody"]
    /\ reports = <<>>

Init ==
    /\ \E customer_phone \in PhoneInputs, customer_id \in CustomerIdInputs,
          call_sid \in CallSidInputs :
          context = initialize_context(customer_phone, customer_id, call_sid)
    /\ result = NoResult
    /\ call = NoCall
    /\ call_repo \in CallRepoInputs
    /\ calls = InitialCalls
    /\ NoBridge
    /\ NoConcurrency

----------------------------------------------------------------------------
(* VerifyAccountTool *)

\* VerifyAccountTool.__init__: self.max_attempts
max_attempts == 2

Last4Inputs == {"1234", "9999"}
PostalInputs == {"90210", "A1B2C3"}

\* Faulty variant: a missing phone is counted as a failed attempt that may be retried
VerifyNoPhone_CountsAttempt(ctx) ==
    [context |-> Put(ctx, "verification_attempts",
                     I(Get(ctx, "verification_attempts", I(0)).v + 1)),
     result |-> ToolResult(FALSE, Msg("phone_not_available", EmptyDict), FALSE,
                           EmptyDict),
     directory |-> "not_called"]

\* No customer_phone in the context: fatal outcome, repository not consulted
VerifyNoPhone(ctx) ==
    [context |-> ctx,
     result |-> ToolResult(FALSE, Msg("phone_not_available", EmptyDict), TRUE,
                           EmptyDict),
     directory |-> "not_called"]

\* Faulty variant: a repository error is answered as a retryable failure
VerifyError_Retryable(ctx) ==
    [context |-> ctx,
     result |-> ToolResult(FALSE, Msg("verify_error_end_call", EmptyDict), FALSE,
                           EmptyDict),
     directory |-> "raised"]

\* Faulty variant: a repository error is counted as a failed attempt
VerifyError_CountsAttempt(ctx) ==
    [context |-> Put(ctx, "verification_attempts",
                     I(Get(ctx, "verification_attempts", I(0)).v + 1)),
     result |-> ToolResult(FALSE, Msg("verify_error_end_call", EmptyDict), TRUE,
                           EmptyDict),
     directory |-> "raised"]

\* The repository raised: end the call, context untouched
VerifyError(ctx) ==
    [context |-> ctx,
     result |-> ToolResult(FALSE, Msg("verify_error_end_call", EmptyDict), TRUE,
                           EmptyDict),
     directory |-> "raised"]

\* Faulty variant: the account fields are copied but the verified flag is not set
VerifiedContext_FlagNotSet(ctx, customer) ==
    LET c2 == Put(ctx, "customer_id", Str(customer.id))
        c3 == Put(c2, "customer_name", S(customer.name))
        c4 == Put(c3, "balance",
                  IF FloatRaises(customer.balance) THEN F(0)
                  ELSE Float(customer.balance))
    IN  Put(c4, "days_overdue", customer.days_overdue)

\* Faulty variant: a successful verification resets the attempts counter
VerifiedContext_ResetsAttempts(ctx, customer) ==
    LET c0 == Put(ctx, "verification_attempts", I(0))
        c1 == Put(c0, "verified", B(TRUE))
        c2 == Put(c1, "customer_id", Str(customer.id))
        c3 == Put(c2, "customer_name", S(customer.name))
        c4 == Put(c3, "balance",
                  IF FloatRaises(customer.balance) THEN F(0)
                  ELSE Float(customer.balance))
    IN  Put(c4, "days_overdue", customer.days_overdue)

\* A customer row was returned: mark verified and copy the account fields
VerifiedContext(ctx, customer) ==
    LET c1 == Put(ctx, "verified", B(TRUE))
        c2 == Put(c1, "customer_id", Str(customer.id))
        c3 == Put(c2, "customer_name", S(customer.name))
        c4 == Put(c3, "balance",
                  IF FloatRaises(customer.balance) THEN F(0)
                  ELSE Float(customer.balance))
    IN  Put(c4, "days_overdue", customer.days_overdue)

\* Faulty variant: the returned data also carries the verification secrets
VerifiedResult_WithSecrets(ctx, customer) ==
    ToolResult(TRUE,
               Msg("identity_verified", [customer_name |-> ctx["customer_name"]]),
               FALSE,
               [customer_id |-> ctx["customer_id"],
                balance |-> ctx["balance"],
                days_overdue |-> ctx["days_overdue"],
                postal_code |-> S(customer.postal_code),
                account_last_4 |-> S(customer.account_last_4)])

\* The success result, built from the context just filled
VerifiedResult(ctx, customer) ==
    ToolResult(TRUE,
               Msg("identity_verified", [customer_name |-> ctx["customer_name"]]),
               FALSE,
               [customer_id |-> ctx["customer_id"],
                balance |-> ctx["balance"],
                days_overdue |-> ctx["days_overdue"]])

\* the branch taken when verify_identity returned a customer
VerifySuccess(ctx, customer) ==
    LET c == VerifiedContext(ctx, customer)
    IN  [context |-> c, result |-> VerifiedResult(c, customer),
         directory |-> "found"]

\* Faulty variant: the call is ended only after max_attempts has been exceeded
VerifyFailure_OffByOne(ctx, failed_attempts) ==
    LET attempts == failed_attempts + 1
        c1 == Put(ctx, "verification_attempts", I(attempts))
        remaining == max_attempts - attempts
        plural == IF remaining > 1 THEN "s" ELSE ""
    IN  [context |-> c1,
         result |->
            IF attempts > max_attempts
            THEN ToolResult(FALSE, Msg("not_verified_end_call", EmptyDict), TRUE,
                            EmptyDict)
            ELSE ToolResult(FALSE,
                            Msg("mismatch_try_again",
                                [remaining |-> I(remaining), plural |-> S(plural)]),
                            FALSE,
                            [attempts_remaining |-> I(remaining)]),
         directory |-> "none"]

\* Faulty variant: a failed attempt also clears the verified flag
VerifyFailure_ClearsVerified(ctx, failed_attempts) ==
    LET attempts == failed_attempts + 1
        c1 == Put(Put(ctx, "verification_attempts", I(attempts)),
                  "verified", B(FALSE))
        remaining == max_attempts - attempts
        plural == IF remaining > 1 THEN "s" ELSE ""
    IN  [context |-> c1,
         result |->
            IF attempts >= max_attempts
            THEN ToolResult(FALSE, Msg("not_verified_end_call", EmptyDict), TRUE,
                            EmptyDict)
            ELSE ToolResult(FALSE,
                            Msg("mismatch_try_again",
                                [remaining |-> I(remaining), plural |-> S(plural)]),
                            FALSE,
                            [attempts_remaining |-> I(remaining)]),
         directory |-> "none"]

\* No row matched: count the failed attempt, end the call at max_attempts
VerifyFailure(ctx, failed_attempts) ==
    LET attempts == failed_attempts + 1
        c1 == Put(ctx, "verification_attempts", I(attempts))
        remaining == max_attempts - attempts
        plural == IF remaining > 1 THEN "s" ELSE ""
    IN  [context |-> c1,
         result |->
            IF attempts >= max_attempts
            THEN ToolResult(FALSE, Msg("not_verified_end_call", EmptyDict), TRUE,
                            EmptyDict)
            ELSE ToolResult(FALSE,
                            Msg("mismatch_try_again",
                                [remaining |-> I(remaining), plural |-> S(plural)]),
                            FALSE,
                            [attempts_remaining |-> I(remaining)]),
         directory |-> "none"]

\* VerifyAccountTool.execute from the point where verify_identity has
\* answered: ctx is the context as it is then, failed_attempts the local
\* variable read before the await
VerifyAfterLookup(ctx, failed_attempts, looked) ==
    IF looked.raised THEN VerifyError(ctx)
    ELSE IF looked.found THEN VerifySuccess(ctx, looked.customer)
    ELSE VerifyFailure(ctx, failed_attempts)

\* VerifyAccountTool.execute, run without another call in between
VerifyAccountExecute(ctx, account_last_4, postal_code, db_error) ==
    LET customer_phone == Get(ctx, "customer_phone", None)
    IN  IF ~Truthy(customer_phone)
        THEN VerifyNoPhone(ctx)
        ELSE LET failed_attempts == Get(ctx, "verification_attempts", I(0)).v
                 looked == verify_identity(customer_phone.v, account_last_4,
                                           postal_code, db_error)
             IN  VerifyAfterLookup(ctx, failed_attempts, looked)

----------------------------------------------------------------------------
(* GetCustomerOptionsTool *)

\* The quotients n / d that lie exactly halfway between two cents and whose
\* double lies above the halfway point, among the amounts computed for the
\* balances of Customers: 0.03 / 6. The double of the other halfway quotient,
\* 250.75 * 0.7, lies below it.
TiesRoundedUp == {<<3, 6>>}

\* round(x, 2) in cents, for x the double of n / d cents, d > 0: the nearest
\* cent; a quotient halfway between two cents goes where its double lies
RoundDiv(n, d) ==
    LET q == n \div d
        r == n % d
    IN  IF 2 * r < d THEN q
        ELSE IF 2 * r > d THEN q + 1
        ELSE IF <<n, d>> \in TiesRoundedUp THEN q + 1 ELSE q

\* format(x, ".2f") of an amount
Fmt2f(x) == [t |-> "str", v |-> <<"%.2f", x.v>>]

\* Faulty variant: the settlement is offered from 90 days on
SettlementOffered_From90(days_overdue) ==
    Truthy(days_overdue) /\ days_overdue.v >= 90

\* if days_overdue and days_overdue > 90
SettlementOffered(days_overdue) == Truthy(days_overdue) /\ days_overdue.v > 90

\* Faulty variant: the 10% discount of calculate_payment_options
SettlementAmount_TenPercent(balance_val) == RoundDiv(9 * balance_val, 10)

\* round(balance_val * 0.7, 2)
SettlementAmount(balance_val) == RoundDiv(7 * balance_val, 10)

\* round(balance_val / 6, 2) if balance_val > 0 else 0.0
PaymentPlanMonthly(balance_val) ==
    IF balance_val > 0 THEN RoundDiv(balance_val, 6) ELSE 0

\* the options dict computed from the balance and the days overdue
ComputeOptions(balance_val, days_overdue) ==
    LET full == RoundDiv(balance_val, 1)
        settlement_amount == SettlementAmount(balance_val)
        payment_plan_monthly == PaymentPlanMonthly(balance_val)
        full_payment == [amount |-> F(full),
                         description |-> Msg("pay_full_balance", EmptyDict)]
        settlement == [amount |-> F(settlement_amount),
                       description |-> Msg("settlement_offer",
                                           [amount |-> Fmt2f(F(settlement_amount))]),
                       discount_percentage |-> I(30)]
        payment_plan == [amount |-> F(payment_plan_monthly),
                         description |-> Msg("payment_plan_offer",
                                        [amount |-> Fmt2f(F(payment_plan_monthly))]),
                         months |-> I(6)]
    IN  IF SettlementOffered(days_overdue)
        THEN [full_payment |-> full_payment, settlement |-> settlement,
              payment_plan |-> payment_plan]
        ELSE [full_payment |-> full_payment, payment_plan |-> payment_plan]

\* the spoken summary of the options
OptionsMessage(customer_name, days_overdue, options) ==
    Msg("payment_options",
        [k \in {"customer_name", "full_payment", "payment_plan"} \cup
               (IF "settlement" \in DOMAIN options
                THEN {"days_overdue", "settlement"} ELSE {}) |->
            CASE k = "customer_name" -> customer_name
              [] k = "days_overdue" -> days_overdue
              [] OTHER -> Fmt2f(options[k].amount)])

\* Faulty variant: the refusal also resets the stored options to an empty dict
OptionsNotVerified_ResetsOptions(ctx) ==
    [context |-> Put(ctx, "payment_options", D(EmptyDict)),
     result |-> ToolResult(FALSE, Msg("verify_first_options", EmptyDict), FALSE,
                           EmptyDict)]

\* the session is not verified: refuse, context untouched
OptionsNotVerified(ctx) ==
    [context |-> ctx,
     result |-> ToolResult(FALSE, Msg("verify_first_options", EmptyDict), FALSE,
                           EmptyDict)]

\* GetCustomerOptionsTool.execute
GetCustomerOptionsExecute(ctx) ==
    IF ~Truthy(Get(ctx, "verified", None))
    THEN OptionsNotVerified(ctx)
    ELSE LET balance == Get(ctx, "balance", None)
             days_overdue == Get(ctx, "days_overdue", I(0))
             customer_name == Get(ctx, "customer_name", S("there"))
         IN  IF balance.t = "None"
             THEN [context |-> ctx,
                   result |-> ToolResult(FALSE, Msg("trouble_accessing", EmptyDict),
                                         FALSE, EmptyDict)]
             ELSE LET balance_val == IF FloatRaises(balance) THEN 0
                                     ELSE Float(balance).v
                      options == ComputeOptions(balance_val, days_overdue)
                  IN  [context |-> Put(ctx, "payment_options", D(options)),
                       result |-> ToolResult(TRUE,
                                     OptionsMessage(customer_name, days_overdue,
                                                    options),
                                     FALSE, options)]

----------------------------------------------------------------------------
(* ProcessPaymentTool *)

PaymentTypeInputs == {"sms_link", "bank_transfer", "payment_plan", "cash"}
OptionInputs == {"full_payment", "settlement", "payment_plan", "bogus"}

\* the public methods of CallRepository, the repository the agent wires in
CallRepositoryMethods ==
    {"create_call", "get_call_by_sid", "get_call_with_transcript",
     "get_customer_calls", "add_transcript_entry", "update_call_extra_data",
     "update_call_end"}

\* {**old, **new}
Merge(old, new) ==
    [k \in (DOMAIN old) \cup (DOMAIN new) |->
        IF k \in DOMAIN new THEN new[k] ELSE old[k]]

\* CallRepository.update_call_extra_data: merge extra_data into the record of
\* call_sid, if there is one; a failing commit raises and persists nothing
update_call_extra_data(tbl, call_sid, extra_data, commit_fails) ==
    IF call_sid \notin DOMAIN tbl THEN [raised |-> FALSE, calls |-> tbl]
    ELSE IF commit_fails THEN [raised |-> TRUE, calls |-> tbl]
    ELSE [raised |-> FALSE,
          calls |-> [tbl EXCEPT ![call_sid].extra_data = Merge(@, extra_data)]]

\* update_call_metadata of a repository that offers it: the arrangement is
\* merged into the extra data of the call, or the write raises
recordPaymentArrangement(tbl, call_sid, arrangement, write_fails) ==
    update_call_extra_data(tbl, call_sid, arrangement, write_fails)

\* await self.call_repo.update_call_metadata(call_sid, metadata): looking up a
\* method the repository does not define raises AttributeError; a repository
\* that defines it persists the metadata into the call record
update_call_metadata(repo, tbl, call_sid, metadata, write_fails) ==
    IF "update_call_metadata" \notin CallRepositoryMethods
       /\ repo = "CallRepository"
    THEN [raised |-> TRUE, calls |-> tbl]
    ELSE recordPaymentArrangement(tbl, call_sid, metadata, write_fails)

\* the confirmation message for the payment type
ConfirmationMessage(payment_type, selected_option, amount) ==
    CASE payment_type = "sms_link" ->
            Msg("confirm_sms_link", [amount |-> Fmt2f(amount)])
      [] payment_type = "bank_transfer" ->
            Msg("confirm_bank_transfer", [amount |-> Fmt2f(amount)])
      [] payment_type = "payment_plan" ->
            Msg("confirm_payment_plan",
                [amount |-> Fmt2f(amount),
                 months |-> Get(selected_option, "months", I(6))])
      [] OTHER -> Msg("confirm_recorded", [amount |-> Fmt2f(amount)])

\* the session is not verified: refuse, nothing written
PaymentNotVerified(ctx) ==
    [context |-> ctx,
     result |-> ToolResult(FALSE, Msg("verify_first", EmptyDict), FALSE,
                           EmptyDict)]

\* Faulty variant: the missing-option refusal reuses the verification message
PaymentNoOption_VerifyMessage(ctx) ==
    [context |-> ctx,
     result |-> ToolResult(FALSE, Msg("verify_first", EmptyDict), FALSE,
                           EmptyDict)]

\* Faulty variant: a refused payment clears the outcome
PaymentNoOption_ClearsOutcome(ctx) ==
    [context |-> Put(ctx, "call_outcome", None),
     result |-> ToolResult(FALSE, Msg("get_options_first", EmptyDict), FALSE,
                           EmptyDict)]

\* no options stored, or the option is not among them: refuse, nothing written
PaymentNoOption(ctx) ==
    [context |-> ctx,
     result |-> ToolResult(FALSE, Msg("get_options_first", EmptyDict), FALSE,
                           EmptyDict)]

\* Faulty variant: the arrangement does not carry the customer id
ArrangementMetadata_NoCustomer(ctx, payment_type, option, amount) ==
    [payment_arrangement |->
        [payment_type |-> S(payment_type),
         option |-> S(option),
         amount |-> amount,
         timestamp |-> Get(ctx, "current_time", S("")),
         customer_id |-> None]]

\* Faulty variant: a payment type that is not recognised is written as sms_link
ArrangementMetadata_KnownTypeOnly(ctx, payment_type, option, amount) ==
    [payment_arrangement |->
        [payment_type |->
            IF payment_type \in {"sms_link", "bank_transfer", "payment_plan"}
            THEN S(payment_type) ELSE S("sms_link"),
         option |-> S(option),
         amount |-> amount,
         timestamp |-> Get(ctx, "current_time", S("")),
         customer_id |-> Get(ctx, "customer_id", None)]]

\* the metadata handed to the repository
ArrangementMetadata(ctx, payment_type, option, amount) ==
    [payment_arrangement |->
        [payment_type |-> S(payment_type),
         option |-> S(option),
         amount |-> amount,
         timestamp |-> Get(ctx, "current_time", S("")),
         customer_id |-> Get(ctx, "customer_id", None)]]

\* Faulty variant: recorded stays True although the write raised
Recorded_IgnoresFailure(writes) == writes # <<>>

\* recorded: True after the awaited write returned, False when there was no
\* call_sid or the write raised
Recorded(writes) == writes # <<>> /\ ~writes[1].raised

\* Faulty variant: the amount is added to the amount already stored
StoreOutcome_Accumulates(ctx, amount) ==
    LET old == Get(ctx, "payment_amount", None)
    IN  Put(Put(ctx, "call_outcome", S("payment_arranged")), "payment_amount",
            IF old = None THEN amount ELSE F(old.v + amount.v))

\* Store outcome in context
StoreOutcome(ctx, amount) ==
    Put(Put(ctx, "call_outcome", S("payment_arranged")), "payment_amount", amount)

\* ProcessPaymentTool.execute, with the repository self.call_repo and its table
ProcessPaymentExecute(ctx, payment_type, option, repo, tbl, write_fails) ==
    IF ~Truthy(Get(ctx, "verified", None))
    THEN PaymentNotVerified(ctx) @@ [repo |-> <<>>, calls |-> tbl]
    ELSE LET options == Get(ctx, "payment_options", None)
         IN  IF ~Truthy(options) \/ option \notin DOMAIN options.v
             THEN PaymentNoOption(ctx) @@ [repo |-> <<>>, calls |-> tbl]
             ELSE LET selected_option == options.v[option]
                      amount_raw == Get(selected_option, "amount", F(0))
                      amount == IF FloatRaises(amount_raw) THEN F(0)
                                ELSE Float(amount_raw)
                      call_sid == Get(ctx, "call_sid", None)
                      metadata == ArrangementMetadata(ctx, payment_type, option,
                                                      amount)
                      written == update_call_metadata(repo, tbl, call_sid.v,
                                                      metadata, write_fails)
                      writes == IF Truthy(call_sid)
                                THEN <<[method |-> "update_call_metadata",
                                        call_sid |-> call_sid,
                                        metadata |-> metadata,
                                        raised |-> written.raised]>>
                                ELSE <<>>
                      recorded == Recorded(writes)
                  IN  [context |-> StoreOutcome(ctx, amount),
                       result |-> ToolResult(TRUE,
                                     ConfirmationMessage(payment_type,
                                                         selected_option, amount),
                                     FALSE,
                                     [payment_type |-> S(payment_type),
                                      option |-> S(option),
                                      amount |-> amount,
                                      recorded |-> B(recorded)]),
                       repo |-> writes,
                       calls |-> IF Truthy(call_sid) THEN written.calls ELSE tbl]

----------------------------------------------------------------------------
(* The tool calls made against one session *)

\* the model bounds the failed attempts it explores
MaxAttemptsExplored == 3

\* verify_account(account_last_4, postal_code)
VerifyAccount ==
    \E account_last_4 \in Last4Inputs, postal_code \in PostalInputs,
       db_error \in BOOLEAN :
        LET out == VerifyAccountExecute(context, account_last_4, postal_code,
                                        db_error)
        IN  /\ out.context["verification_attempts"].v <= MaxAttemptsExplored
            /\ context' = out.context
            /\ result' = out.result
            /\ call' = [tool |-> "verify_account",
                        account_last_4 |-> account_last_4,
                        postal_code |-> postal_code,
                        directory |-> out.directory]
            /\ UNCHANGED <<call_repo, calls, bridge_vars, concurrent_vars>>

\* get_customer_options()
GetCustomerOptions ==
    LET out == GetCustomerOptionsExecute(context)
    IN  /\ context' = out.context
        /\ result' = out.result
        /\ call' = [tool |-> "get_customer_options"]
        /\ UNCHANGED <<call_repo, calls, bridge_vars, concurrent_vars>>

\* whether the write of a repository that offers update_call_metadata fails;
\* the CallRepository never gets as far as a write
WriteOutcomes(repo) == IF repo = "CallRepository" THEN {FALSE} ELSE BOOLEAN

\* process_payment(payment_type, option)
ProcessPayment ==
    \E payment_type \in PaymentTypeInputs, option \in OptionInputs,
       write_fails \in WriteOutcomes(call_repo) :
        LET out == ProcessPaymentExecute(context, payment_type, option,
                                         call_repo, calls, write_fails)
        IN  /\ context' = out.context
            /\ result' = out.result
            /\ call' = [tool |-> "process_payment",
                        payment_type |-> payment_type,
                        option |-> option,
                        repo |-> out.repo]
            /\ calls' = out.calls
            /\ UNCHANGED <<call_repo, bridge_vars, concurrent_vars>>

Next == VerifyAccount \/ GetCustomerOptions \/ ProcessPayment

Spec == Init /\ [][Next]_vars

----------------------------------------------------------------------------
(* The telephony webhooks: twilio_incoming and twilio_status *)

\* CustomerRepository.get_by_phone: the row with this phone number, if any
get_by_phone(phone_number) ==
    LET rows == {c \in Customers : c.phone_number = phone_number}
    IN  IF rows = {} THEN [found |-> FALSE]
        ELSE [found |-> TRUE, customer |-> CHOOSE c \in rows : TRUE]

\* CallRepository.create_call: a new row; call_sid is a unique column, so a
\* second row with the same call_sid fails at commit like any other failure
\* of the commit, and nothing is persisted
create_call(tbl, call_data, commit_fails) ==
    IF commit_fails \/ call_data.call_sid \in DOMAIN tbl
    THEN [raised |-> TRUE, calls |-> tbl]
    ELSE [raised |-> FALSE,
          calls |-> [sid \in (DOMAIN tbl) \cup {call_data.call_sid} |->
                        IF sid = call_data.call_sid
                        THEN [customer_id |-> call_data.customer_id,
                              call_type |-> call_data.call_type,
                              direction |-> call_data.direction,
                              status |-> call_data.status,
                              start_time |-> call_data.start_time,
                              end_time |-> None,
                              duration_seconds |-> None,
                              outcome |-> None,
                              extra_data |-> call_data.extra_data]
                        ELSE tbl[sid]]]

\* CallRepository.update_call_end: end time, duration and status completed;
\* the outcome column is written only when an outcome is passed
update_call_end(tbl, call_sid, end_time, duration, outcome, commit_fails) ==
    IF call_sid \notin DOMAIN tbl THEN [raised |-> FALSE, calls |-> tbl]
    ELSE IF commit_fails THEN [raised |-> TRUE, calls |-> tbl]
    ELSE [raised |-> FALSE,
          calls |-> [tbl EXCEPT
                        ![call_sid].end_time = I(end_time),
                        ![call_sid].duration_seconds = I(duration),
                        ![call_sid].status = "completed",
                        ![call_sid].outcome =
                            IF Truthy(outcome) THEN outcome ELSE @]]

\* the responses of the two endpoints
HTTPException(status_code, detail) ==
    [kind |-> "raised", status_code |-> status_code, detail |-> detail]
TwiML(verbs) == [kind |-> "twiml", verbs |-> verbs]
Json(status) == [kind |-> "json", status |-> status]
Unhandled == [kind |-> "raised", status_code |-> 500, detail |-> "unhandled"]

Say(text) == [verb |-> "Say", text |-> text, parameters |-> EmptyDict]
Hangup == [verb |-> "Hangup", text |-> "", parameters |-> EmptyDict]
ConnectStream(url, parameters) ==
    [verb |-> "Connect/Stream", text |-> url, parameters |-> parameters]

CouldNotMatch ==
    "Thank you for calling. We couldn't match your phone number to an account. Please contact support for assistance."
TemporaryIssues ==
    "We're experiencing temporary issues. Please try again later."
websocket_url == "wss://your-domain.ngrok.io/ws/cartesia"

\* Faulty variant: the caller no account matches is connected to the stream.
NoCustomerResponse_Connects ==
    TwiML(<<ConnectStream(websocket_url, EmptyDict)>>)

\* the response to a caller no account matches
NoCustomerResponse == TwiML(<<Say(CouldNotMatch), Hangup>>)

\* twilio_incoming(CallSid, From, To): the response and the call table.
\* db is which use of the database session fails, if any
twilio_incoming(tbl, call_sid, from_number, to_number, now, db) ==
    IF ~Truthy(call_sid) \/ ~Truthy(from_number)
    THEN [response |-> HTTPException(400, "Missing CallSid or From in webhook"),
          calls |-> tbl]
    ELSE IF db = "lookup" THEN [response |-> Unhandled, calls |-> tbl]
    ELSE
    LET row == get_by_phone(from_number.v)
    IN  IF ~row.found
        THEN [response |-> NoCustomerResponse, calls |-> tbl]
        ELSE
        LET call_data == [call_sid |-> call_sid.v,
                          customer_id |-> row.customer.id,
                          call_type |-> "real_call",
                          direction |-> "inbound",
                          status |-> "in_progress",
                          start_time |-> now,
                          extra_data |-> [k \in {"from", "to"} |->
                                             IF k = "from" THEN from_number
                                             ELSE to_number]]
            created == create_call(tbl, call_data, db = "commit")
        IN  IF created.raised
            THEN [response |-> TwiML(<<Say(TemporaryIssues), Hangup>>),
                  calls |-> tbl]
            ELSE [response |->
                      TwiML(<<ConnectStream(websocket_url,
                                 [k \in {"call_sid", "customer_id",
                                         "customer_phone"} |->
                                     CASE k = "call_sid" -> call_sid
                                       [] k = "customer_id" ->
                                              Str(row.customer.id)
                                       [] k = "customer_phone" ->
                                              from_number])>>),
                  calls |-> created.calls]

\* str.lower() on the status names the notifications carry
Lower(s) == CASE s = "Busy" -> "busy" [] OTHER -> s

\* status_map.get(call_status.lower(), call_status.lower())
InternalStatus(call_status) ==
    LET s == Lower(call_status)
    IN  CASE s = "completed" -> "completed"
          [] s = "in-progress" -> "in_progress"
          [] s = "ringing" -> "ringing"
          [] s \in {"busy", "failed", "no-answer"} -> "failed"
          [] OTHER -> s

\* int(call_duration) on the durations the notifications carry
IntRaises(x) == x.v \notin {"42"}
int(x) == CASE x.v = "42" -> 42

\* the duration twilio_status passes to update_call_end
Duration(call_duration, end_time, start_time) ==
    LET duration == IF Truthy(call_duration) /\ ~IntRaises(call_duration)
                    THEN I(int(call_duration)) ELSE None
        computed == IF duration = None THEN I(end_time - start_time)
                    ELSE duration
    IN  IF Truthy(computed) THEN computed.v ELSE 0

\* Faulty variant: the status is also written to the status column.
StatusUpdate_WritesColumn(tbl, call_sid, internal_status, commit_fails) ==
    IF call_sid \notin DOMAIN tbl THEN [raised |-> FALSE, calls |-> tbl]
    ELSE IF commit_fails THEN [raised |-> TRUE, calls |-> tbl]
    ELSE [raised |-> FALSE,
          calls |-> [tbl EXCEPT
                        ![call_sid].status = internal_status,
                        ![call_sid].extra_data =
                            Merge(@, [k \in {"status"} |-> S(internal_status)])]]

\* the update twilio_status makes for a status other than completed
StatusUpdate(tbl, call_sid, internal_status, commit_fails) ==
    update_call_extra_data(tbl, call_sid, [k \in {"status"} |->
                                              S(internal_status)],
                           commit_fails)

\* the update twilio_status makes for the status completed
CompletedUpdate(tbl, call_sid, call_duration, now, commit_fails) ==
    update_call_end(tbl, call_sid, now,
                    Duration(call_duration, now, tbl[call_sid].start_time),
                    tbl[call_sid].outcome, commit_fails)

\* Faulty variant: the repository error leaves the handler unhandled.
StatusError_Raises(tbl) == [response |-> Unhandled, calls |-> tbl]

\* except Exception: return {"status": "error"}; nothing was committed
StatusError(tbl) == [response |-> Json("error"), calls |-> tbl]

\* twilio_status(CallSid, CallStatus, CallDuration)
twilio_status(tbl, call_sid, call_status, call_duration, now, db) ==
    IF ~Truthy(call_sid) \/ ~Truthy(call_status)
    THEN [response |-> HTTPException(400, "Missing CallSid or CallStatus"),
          calls |-> tbl]
    ELSE IF db = "lookup" THEN StatusError(tbl)
    ELSE IF call_sid.v \notin DOMAIN tbl
    THEN [response |-> Json("not_found"), calls |-> tbl]
    ELSE
    LET internal_status == InternalStatus(call_status.v)
        updated == IF internal_status = "completed"
                   THEN CompletedUpdate(tbl, call_sid.v, call_duration, now,
                                        db = "commit")
                   ELSE StatusUpdate(tbl, call_sid.v, internal_status,
                                     db = "commit")
    IN  IF updated.raised
        THEN StatusError(tbl)
        ELSE [response |-> Json("updated"), calls |-> updated.calls]

\* the form fields of the notifications; a field that is absent reads as None
IncomingCallSidInputs == {None, S("CA1"), S("CA2")}
FromInputs == {None, S("+15550000"), S("+19995550000")}
ToInputs == {S("+18005550100")}
StatusCallSidInputs == {None, S("CA1"), S("CA2")}
CallStatusInputs ==
    {None, S("completed"), S("failed"), S("Busy"), S("no-answer"),
     S("in-progress")}
CallDurationInputs == {None, S("42"), S("abc")}
DbInputs == {"none", "lookup", "commit"}
\* datetime.utcnow(), in seconds since the call of InitialCalls started; the
\* notifications are explored at one reading of the clock
UtcNowInputs == {1}

\* the session of the call of InitialCalls, verified and with its options
\* computed
SessionWithOptions ==
    LET created == initialize_context("+15550000", "c2", "CA1")
        verified == VerifyAccountExecute(created, "9999", "A1B2C3", FALSE)
    IN  GetCustomerOptionsExecute(verified.context)

\* the same session after process_payment("sms_link", "settlement") against
\* the CallRepository the agent is wired with
SessionArranged ==
    ProcessPaymentExecute(SessionWithOptions.context, "sms_link",
                          "settlement", "CallRepository", InitialCalls, FALSE)

\* the webhooks act while the session of the outbound call is under way: its
\* options were computed, and a payment may have been arranged
WebhookInit ==
    /\ \/ /\ context = SessionWithOptions.context
          /\ result = SessionWithOptions.result
          /\ call = [tool |-> "get_customer_options"]
       \/ /\ context = SessionArranged.context
          /\ result = SessionArranged.result
          /\ call = [tool |-> "process_payment", payment_type |-> "sms_link",
                     option |-> "settlement", repo |-> SessionArranged.repo]
    /\ call_repo = "CallRepository"
    /\ calls = InitialCalls
    /\ NoBridge
    /\ NoConcurrency

\* POST /webhooks/twilio/incoming
TwilioIncoming ==
    \E call_sid \in IncomingCallSidInputs, from_number \in FromInputs,
       to_number \in ToInputs, now \in UtcNowInputs, db \in DbInputs :
        LET out == twilio_incoming(calls, call_sid, from_number, to_number,
                                   now, db)
        IN  /\ result' = out.response
            /\ call' = [tool |-> "twilio_incoming", call_sid |-> call_sid,
                        from_number |-> from_number]
            /\ calls' = out.calls
            /\ UNCHANGED <<context, call_repo, bridge_vars, concurrent_vars>>

\* POST /webhooks/twilio/status
TwilioStatus ==
    \E call_sid \in StatusCallSidInputs, call_status \in CallStatusInputs,
       call_duration \in CallDurationInputs, now \in UtcNowInputs,
       db \in DbInputs :
        LET out == twilio_status(calls, call_sid, call_status, call_duration,
                                 now, db)
        IN  /\ (Truthy(call_sid) /\ call_sid.v \in DOMAIN calls)
                => now >= calls[call_sid.v].start_time
            /\ result' = out.response
            /\ call' = [tool |-> "twilio_status", call_sid |-> call_sid,
                        call_status |-> call_status]
            /\ calls' = out.calls
            /\ UNCHANGED <<context, call_repo, bridge_vars, concurrent_vars>>

WebhookNext == TwilioIncoming \/ TwilioStatus

WebhookSpec == WebhookInit /\ [][WebhookNext]_vars

----------------------------------------------------------------------------
(* Calls that interleave: every await hands control to the event loop, so a
   second call on the same session or the same call record may run between
   the two halves of a first one *)

\* the transcript entries explored per run
MaxTranscriptEntries == 3

\* select(func.max(sequence_number)).where(call_id == call_id), "or 0"
max_seq(entries, call_id) ==
    LET numbers == {entries[i].sequence_number :
                       i \in {j \in DOMAIN entries : entries[j].call_id = call_id}}
    IN  IF numbers = {} THEN 0
        ELSE CHOOSE n \in numbers : \A k \in numbers : k <= n

\* CallTranscriptEntry(call_id=call_id, sequence_number=max_seq + 1, ...)
CallTranscriptEntry(call_id, sequence_number, speaker) ==
    [call_id |-> call_id, sequence_number |-> sequence_number,
     speaker |-> speaker]

\* verify_account(...) up to "await self.customer_repo.verify_identity":
\* the phone and the attempts counter are read into local variables
VerifyAccountCall(t) ==
    /\ coroutines[t].pc = "idle"
    /\ \E account_last_4 \in Last4Inputs, postal_code \in PostalInputs :
        LET customer_phone == Get(context, "customer_phone", None)
        IN  IF ~Truthy(customer_phone)
            THEN /\ result' = VerifyNoPhone(context).result
                 /\ call' = [tool |-> "verify_account",
                             account_last_4 |-> account_last_4,
                             postal_code |-> postal_code,
                             directory |-> "not_called"]
                 /\ UNCHANGED coroutines
            ELSE /\ coroutines' =
                        [coroutines EXCEPT ![t] =
                            [pc |-> "verify_identity",
                             locals |->
                                [customer_phone |-> customer_phone,
                                 account_last_4 |-> S(account_last_4),
                                 postal_code |-> S(postal_code),
                                 failed_attempts |->
                                     Get(context, "verification_attempts",
                                         I(0))]]]
                 /\ UNCHANGED <<result, call>>
    /\ UNCHANGED <<context, call_repo, calls, call_transcript_entries,
                   bridge_vars>>

\* verify_identity answers and execute runs to its return
VerifyAccountReturn(t) ==
    /\ coroutines[t].pc = "verify_identity"
    /\ \E db_error \in BOOLEAN :
        LET locals == coroutines[t].locals
            looked == verify_identity(locals.customer_phone.v,
                                      locals.account_last_4.v,
                                      locals.postal_code.v, db_error)
            out == VerifyAfterLookup(context, locals.failed_attempts.v, looked)
        IN  /\ out.context["verification_attempts"].v <= MaxAttemptsExplored
            /\ context' = out.context
            /\ result' = out.result
            /\ call' = [tool |-> "verify_account",
                        account_last_4 |-> locals.account_last_4.v,
                        postal_code |-> locals.postal_code.v,
                        directory |-> out.directory]
    /\ coroutines' = [coroutines EXCEPT ![t] = Idle]
    /\ UNCHANGED <<call_repo, calls, call_transcript_entries, bridge_vars>>

\* add_transcript_entry(call_id, entry_data) up to the answer of the select:
\* max_seq is held in a local variable
AddTranscriptEntryCall(t) ==
    /\ coroutines[t].pc = "idle"
    /\ Len(call_transcript_entries) < MaxTranscriptEntries
    /\ \E call_id \in DOMAIN calls, speaker \in {"customer"} :
          coroutines' =
              [coroutines EXCEPT ![t] =
                  [pc |-> "commit",
                   locals |-> [call_id |-> S(call_id),
                               speaker |-> S(speaker),
                               max_seq |-> I(max_seq(call_transcript_entries,
                                                     call_id))]]]
    /\ UNCHANGED <<context, result, call, call_repo, calls,
                   call_transcript_entries, bridge_vars>>

\* session.add(entry) and commit: the entry is inserted with max_seq + 1,
\* unless the commit fails
AddTranscriptEntryReturn(t) ==
    /\ coroutines[t].pc = "commit"
    /\ \E commit_fails \in BOOLEAN :
        LET locals == coroutines[t].locals
            entry == CallTranscriptEntry(locals.call_id.v,
                                         locals.max_seq.v + 1,
                                         locals.speaker.v)
        IN  call_transcript_entries' =
                IF commit_fails THEN call_transcript_entries
                ELSE Append(call_transcript_entries, entry)
    /\ coroutines' = [coroutines EXCEPT ![t] = Idle]
    /\ UNCHANGED <<context, result, call, call_repo, calls, bridge_vars>>

\* a fresh session of the customer of the outbound call
ConcurrentInit ==
    /\ context = initialize_context("+15550000", "c2", "CA1")
    /\ result = NoResult
    /\ call = NoCall
    /\ call_repo = "CallRepository"
    /\ calls = InitialCalls
    /\ NoBridge
    /\ NoConcurrency

ConcurrentNext ==
    \E t \in Coroutines :
        \/ VerifyAccountCall(t)
        \/ VerifyAccountReturn(t)
        \/ AddTranscriptEntryCall(t)
        \/ AddTranscriptEntryReturn(t)

ConcurrentSpec == ConcurrentInit /\ [][ConcurrentNext]_vars

----------------------------------------------------------------------------
(* The media bridge: handle_cartesia_stream and its two receive loops *)

\* audio: raw bytes numbered n, and the base64 text of those bytes
Bytes(n) == [t |-> "bytes", v |-> n]
Base64(n) == [t |-> "str", enc |-> "base64", v |-> n]
InvalidBase64 == [t |-> "str", enc |-> "invalid", v |-> 0]
EmptyStr == [t |-> "str", enc |-> "empty", v |-> 0]

\* base64.b64encode(b).decode("utf-8")
b64encode(b) == Base64(b.v)
\* base64.b64decode(s): raises on text that is not base64
b64decodeRaises(s) == s.enc # "base64"
b64decode(s) == Bytes(s.v)

\* what twilio_ws.receive_json() yields: the frames of the telephony side;
\* for "not_json" and "disconnect" the call raises instead of returning
Frame(event, streamSid, callSid, payload) ==
    [event |-> event, streamSid |-> streamSid, callSid |-> callSid,
     payload |-> payload]
Connected == Frame("connected", None, None, None)
Start(streamSid, callSid) == Frame("start", S(streamSid), S(callSid), None)
Media(n) == Frame("media", None, None, Base64(n))
MediaNoPayload == Frame("media", None, None, EmptyStr)
MediaInvalid == Frame("media", None, None, InvalidBase64)
Stop == Frame("stop", None, None, None)
Mark == Frame("mark", None, None, None)
NotJson == Frame("not_json", None, None, None)
Disconnect == Frame("disconnect", None, None, None)

\* what iterating cartesia_ws yields: bytes, or text holding JSON or not
Message(kind, type, audio, conversation_id) ==
    [kind |-> kind, type |-> type, audio |-> audio,
     conversation_id |-> conversation_id]
BinaryMessage(n) == Message("bytes", "", Bytes(n), None)
AudioMessage(n) == Message("json", "audio", Base64(n), None)
AudioMessageEmpty == Message("json", "audio", None, None)
Pong == Message("json", "pong", None, None)
ConversationAck(id) == Message("json", "conversation_ack", None, S(id))
OtherEvent == Message("json", "transcript", None, None)
NotJsonText == Message("text", "", None, None)

\* tw_msg, the media frame written to the telephony connection
TwMsg(stream_sid, audio_b64) ==
    [event |-> "media", streamSid |-> stream_sid, payload |-> audio_b64]

\* msg, the chunk written to the voice-engine connection
UserAudioChunk(normalized) == [user_audio_chunk |-> normalized]

\* a task of the bridge: where it is suspended and the frame it is writing
Task(pc, hold) == [pc |-> pc, hold |-> hold]
NoTask == Task("none", <<>>)
Running(task) == task.pc \in {"receive", "send", "close"}

\* stream_state as handle_cartesia_stream creates it
InitialStreamState ==
    [stream_sid |-> None, call_sid |-> None, conversation_id |-> None]

\* a value that passes "if payload:" / "if audio_b64"
Present(x) == x.t # "None" /\ (x.t = "str" => x.enc # "empty")

\* Faulty variant: the audio is sent on whether or not a stream id is known
ForwardAudio_Unchecked(st, audio_b64) ==
    Task("send", <<TwMsg(st.stream_sid, audio_b64)>>)

\* if stream_state.get("stream_sid"): build tw_msg and send it; without a
\* stream id the audio is dropped
ForwardAudio(st, audio_b64) ==
    IF Truthy(st.stream_sid)
    THEN Task("send", <<TwMsg(st.stream_sid, audio_b64)>>)
    ELSE Task("receive", <<>>)

\* _cartesia_receive_loop, the body of "async for message in cartesia_ws":
\* the task and stream_state after the message was looked at
CartesiaOnMessage(message, st) ==
    IF message.kind = "bytes"
    THEN LET audio_b64 == b64encode(message.audio)
         IN  [stream_state |-> st, task |-> ForwardAudio(st, audio_b64)]
    ELSE IF message.kind = "text"
    THEN [stream_state |-> st, task |-> Task("receive", <<>>)]
    ELSE IF message.type = "audio"
    THEN LET audio_b64 == message.audio
         IN  [stream_state |-> st,
              task |-> IF Present(audio_b64)
                       THEN ForwardAudio(st, audio_b64)
                       ELSE Task("receive", <<>>)]
    ELSE IF message.type = "pong"
    THEN [stream_state |-> st, task |-> Task("receive", <<>>)]
    ELSE IF message.type = "conversation_ack"
    THEN [stream_state |-> [st EXCEPT !.conversation_id = message.conversation_id],
          task |-> Task("receive", <<>>)]
    ELSE [stream_state |-> st, task |-> Task("receive", <<>>)]

\* the "start" branch: both identifiers are stored
TwilioOnStart(frame, st) ==
    [st EXCEPT !.stream_sid = frame.streamSid, !.call_sid = frame.callSid]

\* the "media" branch: the payload is decoded and re-encoded, then sent
TwilioOnMedia(frame) ==
    LET payload == frame.payload
    IN  IF ~Present(payload) \/ b64decodeRaises(payload)
        THEN Task("receive", <<>>)
        ELSE LET audio_bytes == b64decode(payload)
                 normalized == b64encode(audio_bytes)
             IN  Task("send", <<UserAudioChunk(normalized)>>)

\* Faulty variant: after a stop frame the loop goes on to the next frame.
TwilioOnStop_ReadsOn == Task("receive", <<>>)

\* the "stop" branch: the loop is about to close cartesia_ws and break
TwilioOnStop == Task("close", <<>>)

\* Faulty variant: a frame of unknown type ends the loop.
TwilioOnUnknown_Ends == Task("done", <<>>)

\* the final "else" branch: the event is logged and the loop reads on
TwilioOnUnknown == Task("receive", <<>>)

\* _twilio_receive_loop, one turn of "while True" up to its next await: the
\* task and stream_state after receive_json returned frame, or raised
TwilioOnFrame(frame, st) ==
    IF frame.event \in {"not_json", "disconnect"}
    THEN [stream_state |-> st, task |-> Task("done", <<>>)]
    ELSE IF frame.event = "connected"
    THEN [stream_state |-> st, task |-> Task("receive", <<>>)]
    ELSE IF frame.event = "start"
    THEN [stream_state |-> TwilioOnStart(frame, st),
          task |-> Task("receive", <<>>)]
    ELSE IF frame.event = "media"
    THEN [stream_state |-> st, task |-> TwilioOnMedia(frame)]
    ELSE IF frame.event = "stop"
    THEN [stream_state |-> st, task |-> TwilioOnStop]
    ELSE [stream_state |-> st, task |-> TwilioOnUnknown]

\* Faulty variant: the frame overtakes the frames written before it
send_json_Overtaking(sent, tw_msg) == <<tw_msg>> \o sent

\* twilio_ws.send_json(tw_msg): the frame follows those already written
send_json(sent, tw_msg) == Append(sent, tw_msg)

\* await cartesia_ws.close(): an open connection is closed, a closed one stays
CloseCartesia(state) == IF state = "OPEN" THEN "CLOSED" ELSE state

\* Faulty variant: the finally block leaves cartesia_ws alone
CleanupCartesia_Skip(state) == state

\* the finally block: cartesia_ws is closed if there is one and it is OPEN
CleanupCartesia(state) == IF state = "OPEN" THEN CloseCartesia(state) ELSE state

\* Faulty variant: the telephony websocket is left as it is.
CloseWebsocket_Skip(state) == state

\* await websocket.close(): raises on a connection already closed, which the
\* handler swallows; either way the connection is closed afterwards
CloseWebsocket(state) == "DISCONNECTED"

\* Faulty variant: the pending task is left running.
Cancel_Ignored(task) == task

\* task.cancel() and await task, for a task still pending
Cancel(task) == IF Running(task) THEN Task("cancelled", <<>>) ELSE task

\* the telephony scripts and voice-engine behaviours explored
MaxEngineMessages == 2

ScriptEcho == <<Start("MZ1", "CA1"), Media(1), Media(2), Media(3), Stop>>
ScriptEarlyMedia == <<Media(1), Start("MZ1", "CA1"), Media(2), Stop, Media(3)>>
ScriptRestart ==
    <<Connected, Start("MZ1", "CA1"), Mark, Start("MZ2", "CA2"), Media(1),
      Disconnect>>
ScriptFaulty == <<Start("MZ1", "CA1"), MediaNoPayload, MediaInvalid, NotJson>>
ScriptSilent == <<Start("MZ1", "CA1"), Media(1)>>

Scenarios ==
    { [name |-> "echo", script |-> ScriptEcho, mode |-> "echo",
       may_close |-> FALSE],
      [name |-> "early_media", script |-> ScriptEarlyMedia, mode |-> "echo",
       may_close |-> TRUE],
      [name |-> "restart", script |-> ScriptRestart, mode |-> "free",
       may_close |-> TRUE],
      [name |-> "faulty", script |-> ScriptFaulty, mode |-> "free",
       may_close |-> FALSE],
      [name |-> "silent", script |-> ScriptSilent, mode |-> "echo",
       may_close |-> TRUE] }

EngineMessages(n) ==
    {BinaryMessage(n), AudioMessage(n), AudioMessageEmpty, Pong,
     ConversationAck("conv1"), OtherEvent, NotJsonText}

BridgeInit ==
    /\ context = initialize_context("+15551234", "c1", "CA1")
    /\ result = NoResult
    /\ call = NoCall
    /\ call_repo = "CallRepository"
    /\ calls = InitialCalls
    /\ NoConcurrency
    /\ handler = "accepted"
    /\ websocket = "CONNECTED"
    /\ cartesia_ws = "None"
    /\ stream_state = InitialStreamState
    /\ twilio_task = NoTask
    /\ cartesia_task = NoTask
    /\ \E sc \in Scenarios :
          /\ twilio_in = sc.script
          /\ engine = [scenario |-> sc.name, mode |-> sc.mode,
                       may_close |-> sc.may_close, echoed |-> 0, sent |-> 0,
                       closed_by |-> "nobody"]
    /\ twilio_out = <<>>
    /\ cartesia_in = <<>>
    /\ cartesia_out = <<>>
    /\ reports = <<>>

\* the ImportError branch: await websocket.close() stands outside every try,
\* so the handler returns when it succeeds and raises when it fails
AfterImportError(close_raises) ==
    IF close_raises THEN "raised" ELSE "returned"

\* handle_cartesia_stream up to asyncio.wait: the SDK import fails and the
\* handler closes the websocket and is over; or creating the client or its
\* websocket raises and the finally block runs; or both loops are started
HandlerSetup ==
    /\ handler = "accepted"
    /\ \E outcome \in {"import_error", "connect_error", "connected"} :
          CASE outcome = "import_error" ->
                  /\ websocket' = CloseWebsocket(websocket)
                  /\ \E close_raises \in BOOLEAN :
                        handler' = AfterImportError(close_raises)
                  /\ UNCHANGED <<cartesia_ws, twilio_task, cartesia_task>>
            [] outcome = "connect_error" ->
                  /\ handler' = "cleanup_cartesia"
                  /\ UNCHANGED <<websocket, cartesia_ws, twilio_task,
                                 cartesia_task>>
            [] outcome = "connected" ->
                  /\ cartesia_ws' = "OPEN"
                  /\ cartesia_task' = Task("receive", <<>>)
                  /\ twilio_task' = Task("receive", <<>>)
                  /\ handler' = "streaming"
                  /\ UNCHANGED websocket
    /\ UNCHANGED <<stream_state, twilio_in, twilio_out, cartesia_in,
                   cartesia_out, engine, reports, tool_vars>>

\* data = await twilio_ws.receive_json(), and the branch taken on it
TwilioReceiveJson ==
    /\ twilio_task.pc = "receive"
    /\ twilio_in # <<>>
    /\ LET out == TwilioOnFrame(Head(twilio_in), stream_state)
       IN  /\ twilio_task' = out.task
           /\ stream_state' = out.stream_state
           /\ websocket' = IF Head(twilio_in).event = "disconnect"
                           THEN "DISCONNECTED" ELSE websocket
    /\ twilio_in' = Tail(twilio_in)
    /\ UNCHANGED <<handler, cartesia_ws, cartesia_task, twilio_out, cartesia_in,
                   cartesia_out, engine, reports, tool_vars>>

\* await cartesia_ws.send(json.dumps(msg)): ConnectionClosed ends the loop
TwilioSend ==
    /\ twilio_task.pc = "send"
    /\ IF cartesia_ws = "OPEN"
       THEN /\ cartesia_out' = Append(cartesia_out, twilio_task.hold[1])
            /\ twilio_task' = Task("receive", <<>>)
       ELSE /\ twilio_task' = Task("done", <<>>)
            /\ UNCHANGED cartesia_out
    /\ UNCHANGED <<handler, websocket, cartesia_ws, stream_state, cartesia_task,
                   twilio_in, twilio_out, cartesia_in, engine, reports,
                   tool_vars>>

\* the "stop" branch: await cartesia_ws.close(), then break
TwilioCloseCartesia ==
    /\ twilio_task.pc = "close"
    /\ cartesia_ws' = CloseCartesia(cartesia_ws)
    /\ engine' = IF cartesia_ws = "OPEN"
                 THEN [engine EXCEPT !.closed_by = "bridge"] ELSE engine
    /\ twilio_task' = Task("done", <<>>)
    /\ UNCHANGED <<handler, websocket, stream_state, cartesia_task, twilio_in,
                   twilio_out, cartesia_in, cartesia_out, reports, tool_vars>>

\* async for message in cartesia_ws: the next queued message, or the end of
\* the iteration once the connection is closed
CartesiaReceive ==
    /\ cartesia_task.pc = "receive"
    /\ \/ /\ cartesia_in # <<>>
          /\ LET out == CartesiaOnMessage(Head(cartesia_in), stream_state)
             IN  /\ cartesia_task' = out.task
                 /\ stream_state' = out.stream_state
          /\ cartesia_in' = Tail(cartesia_in)
       \/ /\ cartesia_ws = "CLOSED"
          /\ cartesia_task' = Task("done", <<>>)
          /\ UNCHANGED <<stream_state, cartesia_in>>
    /\ UNCHANGED <<handler, websocket, cartesia_ws, twilio_task, twilio_in,
                   twilio_out, cartesia_out, engine, reports, tool_vars>>

\* await twilio_ws.send_json(tw_msg): on a closed websocket it raises, which
\* the loop logs before it reads on
CartesiaSendJson ==
    /\ cartesia_task.pc = "send"
    /\ twilio_out' = IF websocket = "CONNECTED"
                     THEN send_json(twilio_out, cartesia_task.hold[1])
                     ELSE twilio_out
    /\ cartesia_task' = Task("receive", <<>>)
    /\ UNCHANGED <<handler, websocket, cartesia_ws, stream_state, twilio_task,
                   twilio_in, cartesia_in, cartesia_out, engine, reports,
                   tool_vars>>

\* asyncio.wait(..., FIRST_COMPLETED) returns; every pending task is
\* cancelled and awaited
HandlerWait ==
    /\ handler = "streaming"
    /\ twilio_task.pc = "done" \/ cartesia_task.pc = "done"
    /\ twilio_task' = Cancel(twilio_task)
    /\ cartesia_task' = Cancel(cartesia_task)
    /\ handler' = "cleanup_cartesia"
    /\ UNCHANGED <<websocket, cartesia_ws, stream_state, twilio_in, twilio_out,
                   cartesia_in, cartesia_out, engine, reports, tool_vars>>

\* finally: close cartesia_ws if it is OPEN
HandlerCleanupCartesia ==
    /\ handler = "cleanup_cartesia"
    /\ cartesia_ws' = CleanupCartesia(cartesia_ws)
    /\ engine' = IF cartesia_ws = "OPEN" /\ cartesia_ws' = "CLOSED"
                 THEN [engine EXCEPT !.closed_by = "bridge"] ELSE engine
    /\ handler' = "cleanup_websocket"
    /\ UNCHANGED <<websocket, stream_state, twilio_task, cartesia_task,
                   twilio_in, twilio_out, cartesia_in, cartesia_out, reports,
                   tool_vars>>

\* finally: close the websocket; the handler returns
HandlerCleanupWebsocket ==
    /\ handler = "cleanup_websocket"
    /\ websocket' = CloseWebsocket(websocket)
    /\ handler' = "returned"
    /\ UNCHANGED <<cartesia_ws, stream_state, twilio_task, cartesia_task,
                   twilio_in, twilio_out, cartesia_in, cartesia_out, engine,
                   reports, tool_vars>>

\* the voice engine echoes the next chunk it was sent as a binary frame
EngineEcho ==
    /\ engine.mode = "echo"
    /\ cartesia_ws = "OPEN"
    /\ engine.echoed < Len(cartesia_out)
    /\ LET chunk == cartesia_out[engine.echoed + 1].user_audio_chunk
       IN  cartesia_in' = Append(cartesia_in, BinaryMessage(b64decode(chunk).v))
    /\ engine' = [engine EXCEPT !.echoed = @ + 1]
    /\ UNCHANGED <<handler, websocket, cartesia_ws, stream_state, twilio_task,
                   cartesia_task, twilio_in, twilio_out, cartesia_out, reports,
                   tool_vars>>

\* the voice engine sends a message of its own
EngineSends ==
    /\ engine.mode = "free"
    /\ cartesia_ws = "OPEN"
    /\ engine.sent < MaxEngineMessages
    /\ \E message \in EngineMessages(engine.sent + 1) :
          cartesia_in' = Append(cartesia_in, message)
    /\ engine' = [engine EXCEPT !.sent = @ + 1]
    /\ UNCHANGED <<handler, websocket, cartesia_ws, stream_state, twilio_task,
                   cartesia_task, twilio_in, twilio_out, cartesia_out, reports,
                   tool_vars>>

\* the voice engine closes its connection while the bridge is streaming
EngineCloses ==
    /\ engine.may_close
    /\ handler = "streaming"
    /\ cartesia_ws = "OPEN"
    /\ cartesia_ws' = "CLOSED"
    /\ engine' = [engine EXCEPT !.closed_by = "engine"]
    /\ UNCHANGED <<handler, websocket, stream_state, twilio_task, cartesia_task,
                   twilio_in, twilio_out, cartesia_in, cartesia_out, reports,
                   tool_vars>>

BridgeNext ==
    \/ HandlerSetup
    \/ TwilioReceiveJson
    \/ TwilioSend
    \/ TwilioCloseCartesia
    \/ CartesiaReceive
    \/ CartesiaSendJson
    \/ HandlerWait
    \/ HandlerCleanupCartesia
    \/ HandlerCleanupWebsocket
    \/ EngineEcho
    \/ EngineSends
    \/ EngineCloses

BridgeSpec == BridgeInit /\ [][BridgeNext]_vars

\* the event loop runs every coroutine that can take its next step: an await
\* whose result is ready returns, a handler that can go on goes on. The voice
\* engine and the telephony side are under no such obligation.
BridgeFairness ==
    /\ WF_vars(HandlerSetup)
    /\ WF_vars(TwilioReceiveJson)
    /\ WF_vars(TwilioSend)
    /\ WF_vars(TwilioCloseCartesia)
    /\ WF_vars(CartesiaReceive)
    /\ WF_vars(CartesiaSendJson)
    /\ WF_vars(HandlerWait)
    /\ WF_vars(HandlerCleanupCartesia)
    /\ WF_vars(HandlerCleanupWebsocket)

FairBridgeSpec == BridgeSpec /\ BridgeFairness

----------------------------------------------------------------------------
(* Properties of the verification gate and the payment tools *)

Verified == Truthy(Get(context, "verified", None))
Attempts == Get(context, "verification_attempts", I(0)).v
HasPhone == Truthy(Get(context, "customer_phone", None))
Returned == result.kind = "returned"

\* the keys under which a result's data, or the fields through which its
\* message, discloses the balance, the days overdue or an offer amount
AccountDataKeys ==
    {"balance", "days_overdue", "amount", "full_payment", "settlement",
     "payment_plan"}
CarriesAccountData(r) ==
    \/ DOMAIN r.data \cap AccountDataKeys # {}
    \/ DOMAIN r.message.fields \cap AccountDataKeys # {}

\* C1: while the session is not verified, the last get_customer_options or
\* process_payment call returned failure, and the last tool result carries
\* neither the balance, nor the days overdue, nor any offer amount.
C1_NoDisclosureBeforeVerified ==
    ~Verified =>
        /\ call.tool \in {"get_customer_options", "process_payment"}
              => Returned /\ ~result.success
        /\ Returned => ~CarriesAccountData(result)

\* C1 witness: an unverified session on which process_payment was refused
C1_Witness ==
    /\ ~Verified
    /\ call.tool = "process_payment"
    /\ Returned /\ ~result.success

\* C2: once verification_attempts has reached max_attempts, a further
\* verify_account call does not consult the directory, does not change the
\* counter and does not set verified.
C2_NoVerifyBeyondMax ==
    [][(Attempts >= max_attempts /\ call'.tool = "verify_account")
          => /\ call'.directory = "not_called"
             /\ Attempts' = Attempts
             /\ Verified' = Verified]_vars

\* C3: after every step verification_attempts lies in 0..max_attempts and
\* is not smaller than before the step.
C3_AttemptsBoundedMonotone ==
    [][Attempts' \in 0..max_attempts /\ Attempts' >= Attempts]_vars

\* C4: a verify_account call that finds no match adds exactly one to
\* verification_attempts; it fails with should_end_call exactly when the new
\* count has reached max_attempts, and otherwise reports
\* attempts_remaining = max_attempts - new count; so the first mismatch of a
\* fresh session gives (end=false, remaining=1) and the second gives end=true.
C4_MismatchCountsOnce ==
    [][(call'.tool = "verify_account" /\ call'.directory = "none")
          => /\ Attempts' = Attempts + 1
             /\ result'.kind = "returned" /\ ~result'.success
             /\ result'.should_end_call <=> (Attempts' >= max_attempts)
             /\ ~result'.should_end_call
                   => result'.data =
                         [attempts_remaining |-> I(max_attempts - Attempts')]
             /\ Attempts = 0
                   => /\ ~result'.should_end_call
                      /\ result'.data = [attempts_remaining |-> I(1)]
             /\ Attempts = 1 => result'.should_end_call]_vars

\* C4 witness: the second mismatch has just ended the call
C4_Witness ==
    /\ call.tool = "verify_account" /\ call.directory = "none"
    /\ Attempts = 2
    /\ Returned /\ result.should_end_call

\* C5 (as claimed): each of customer_id, customer_name, balance and
\* days_overdue is held by the session only if verified is true.
C5_SnapshotOnlyIfVerified ==
    \A k \in {"customer_id", "customer_name", "balance", "days_overdue"} :
        (k \in DOMAIN context /\ context[k].t # "None") => Verified

\* C5 (amended): customer_name, balance and days_overdue are in the session
\* only if verified is true, while customer_id is in it from
\* initialize_context on.
C5_NameBalanceOverdueOnlyIfVerified ==
    /\ \A k \in {"customer_name", "balance", "days_overdue"} :
          k \in DOMAIN context => Verified
    /\ "customer_id" \in DOMAIN context /\ context["customer_id"].t = "str"

\* C5 witness: a verified session holding the account's balance
C5_Witness ==
    /\ Verified
    /\ {"customer_name", "balance", "days_overdue"} \subseteq DOMAIN context
    /\ context["balance"].t = "float"

\* C6: verified is false in a new session; it changes only from false to
\* true, and only in a verify_account call for which the directory returned
\* a customer.
C6_VerifiedLatches ==
    /\ ~Verified
    /\ [][(Verified' # Verified)
             => /\ ~Verified /\ Verified'
                /\ call'.tool = "verify_account"
                /\ call'.directory = "found"]_vars

\* C6 witness: a verified session after a later verify_account that did not
\* match
C6_Witness ==
    /\ Verified
    /\ call.tool = "verify_account" /\ call.directory = "none"

\* C7: verify_account on a session without a customer phone fails with
\* should_end_call, does not call the directory and leaves the context as
\* it was.
C7_NoPhoneIsFatal ==
    [][(call'.tool = "verify_account" /\ ~HasPhone)
          => /\ result'.kind = "returned" /\ ~result'.success
             /\ result'.should_end_call
             /\ call'.directory = "not_called"
             /\ context' = context]_vars

\* C7 witness: verify_account has been refused on a session without a phone
C7_Witness ==
    /\ ~HasPhone
    /\ call.tool = "verify_account"
    /\ Returned /\ result.should_end_call
    /\ ~Verified /\ Attempts = 0

\* C8: when the directory lookup raises, verify_account returns (it does
\* not raise) a failure with should_end_call, and does not change verified.
C8_DirectoryErrorFailsClosed ==
    [][(call'.tool = "verify_account" /\ call'.directory = "raised")
          => /\ result'.kind = "returned"
             /\ ~result'.success
             /\ result'.should_end_call
             /\ Verified' = Verified]_vars

\* C8 witness: the lookup raised on an unverified session
C8_Witness ==
    /\ call.tool = "verify_account" /\ call.directory = "raised"
    /\ ~Verified
    /\ Returned /\ result.should_end_call

\* the directory row a matching verify_account call was answered with
MatchedCustomer(phone, c) ==
    CHOOSE r \in Customers :
        /\ r.phone_number = phone
        /\ r.account_last_4 = c.account_last_4
        /\ r.postal_code = c.postal_code

\* C9: a verify_account call that matches sets verified, stores the
\* account id, name, balance and days overdue of the matched row, and returns
\* success with data holding exactly customer_id, balance and days_overdue;
\* neither the data nor the message holds the postal code or the last 4.
C9_MatchFillsSnapshot ==
    [][(call'.tool = "verify_account" /\ call'.directory = "found")
          => LET row == MatchedCustomer(context["customer_phone"].v, call')
                 secrets == {S(row.postal_code), S(row.account_last_4)}
             IN  /\ Verified'
                 /\ context'["customer_id"] = S(row.id.v)
                 /\ context'["customer_name"] = S(row.name)
                 /\ context'["balance"] = F(row.balance.v)
                 /\ context'["days_overdue"] = row.days_overdue
                 /\ result'.kind = "returned" /\ result'.success
                 /\ result'.data = [customer_id |-> S(row.id.v),
                                    balance |-> F(row.balance.v),
                                    days_overdue |-> row.days_overdue]
                 /\ \A k \in DOMAIN result'.message.fields :
                        result'.message.fields[k] \notin secrets]_vars

\* C9 witness: a matching verify_account has filled the session
C9_Witness ==
    /\ call.tool = "verify_account" /\ call.directory = "found"
    /\ Verified
    /\ Returned /\ result.success
    /\ DOMAIN result.data = {"customer_id", "balance", "days_overdue"}

\* C10: get_customer_options on an unverified session returns failure and
\* leaves the context, payment_options included, as it was; payment_options
\* of an unverified session is still empty.
C10_OptionsRefusedUnverified ==
    [][(call'.tool = "get_customer_options" /\ ~Verified)
          => /\ result'.kind = "returned" /\ ~result'.success
             /\ context' = context
             /\ ~Truthy(Get(context', "payment_options", None))]_vars

\* C10 witness: get_customer_options has been refused
C10_Witness ==
    /\ call.tool = "get_customer_options"
    /\ ~Verified
    /\ Returned /\ ~result.success
    /\ context["payment_options"] = None

\* the options stored in the session
Options == Get(context, "payment_options", None)
Outcome == Get(context, "call_outcome", None)
PaymentAmount == Get(context, "payment_amount", None)
OptionOffered(option) == Truthy(Options) /\ option \in DOMAIN Options.v

\* C11: process_payment on an unverified session, or with an option that is
\* not among the stored options (none stored included), returns failure,
\* leaves every session field (call_outcome and payment_amount included) and
\* the call table as they were, makes no repository write, and the two
\* refusals carry different messages.
C11_PaymentRefusedWithoutEffect ==
    [][(call'.tool = "process_payment"
        /\ (~Verified \/ ~OptionOffered(call'.option)))
          => /\ result'.kind = "returned" /\ ~result'.success
             /\ context' = context
             /\ call'.repo = <<>>
             /\ calls' = calls
             /\ result'.message.id
                    = (IF ~Verified THEN "verify_first" ELSE "get_options_first")]_vars

\* C11 witness: a verified session with stored options was refused an option
\* that is not among them
C11_Witness ==
    /\ call.tool = "process_payment"
    /\ Verified /\ Truthy(Options) /\ ~OptionOffered(call.option)
    /\ Returned /\ ~result.success
    /\ result.message.id = "get_options_first"
    /\ call.repo = <<>>

\* the repository write the last process_payment made, if any
Wrote(c) == c.tool = "process_payment" /\ c.repo # <<>>
WriteRaised(c) == Wrote(c) /\ c.repo[1].raised

\* C12: when the repository write of process_payment raises, the tool still
\* returns success with recorded false, nothing propagates, and the session
\* holds call_outcome payment_arranged and, as payment_amount, the amount of
\* the chosen option.
C12_WriteFailureTolerated ==
    [][WriteRaised(call')
          => /\ result'.kind = "returned" /\ result'.success
             /\ result'.data["recorded"] = B(FALSE)
             /\ Get(context', "call_outcome", None) = S("payment_arranged")
             /\ Get(context', "payment_amount", None)
                    = Float(Options.v[call'.option]["amount"])
             /\ result'.data["amount"] = Get(context', "payment_amount", None)
             /\ calls' = calls]_vars

\* C12 witness: the write of a repository that offers update_call_metadata
\* raised, and the payment was confirmed unrecorded
C12_Witness ==
    /\ call_repo = "MetadataRepository"
    /\ WriteRaised(call)
    /\ Returned /\ result.success
    /\ result.data["recorded"] = B(FALSE)
    /\ Outcome = S("payment_arranged")

\* C13: once call_outcome is set, no operation on the session changes or
\* clears it; later process_payment calls leave it as it is.
C13_OutcomeSetOnce ==
    [][Truthy(Outcome) => Get(context', "call_outcome", None) = Outcome]_vars

\* C13 witness: a later process_payment succeeded (its write raised) on a
\* session whose call record already holds an earlier arrangement
C13_Witness ==
    /\ Outcome = S("payment_arranged")
    /\ WriteRaised(call)
    /\ Returned /\ result.success
    /\ "payment_arrangement" \in DOMAIN calls[call.repo[1].call_sid.v].extra_data

\* C14: a successful process_payment on a session that has a call_sid makes
\* exactly one update_call_metadata call on the repository, keyed by that
\* call_sid and carrying the payment type, the option, the amount stored for
\* that option in payment_options, the timestamp and the customer id; recorded
\* is true exactly when that call did not raise.
C14_OneArrangementWrite ==
    [][(call'.tool = "process_payment" /\ result'.kind = "returned"
        /\ result'.success /\ Truthy(Get(context, "call_sid", None)))
          => /\ Len(call'.repo) = 1
             /\ call'.repo[1].method = "update_call_metadata"
             /\ call'.repo[1].call_sid = Get(context, "call_sid", None)
             /\ call'.repo[1].metadata
                  = [payment_arrangement |->
                       [payment_type |-> S(call'.payment_type),
                        option |-> S(call'.option),
                        amount |-> Float(Options.v[call'.option]["amount"]),
                        timestamp |-> Get(context, "current_time", S("")),
                        customer_id |-> Get(context, "customer_id", None)]]
             /\ result'.data["recorded"] = B(~call'.repo[1].raised)]_vars

\* C14 witness: a payment was confirmed and its one write recorded
C14_Witness ==
    /\ Wrote(call) /\ ~WriteRaised(call)
    /\ Len(call.repo) = 1
    /\ Returned /\ result.success
    /\ result.data["recorded"] = B(TRUE)
    /\ call.repo[1].metadata["payment_arrangement"]["amount"]
            = result.data["amount"]

\* process_payment called again with the arguments of the call just made
SamePaymentAgain ==
    /\ call.tool = "process_payment" /\ call'.tool = "process_payment"
    /\ call'.payment_type = call.payment_type
    /\ call'.option = call.option

OptionsComputed ==
    /\ call'.tool = "get_customer_options"
    /\ result'.kind = "returned" /\ result'.success
Balance == Get(context, "balance", None)
DaysOverdue == Get(context, "days_overdue", None)
Abs(x) == IF x < 0 THEN -x ELSE x

\* C16: whatever the balance and the days overdue of the verified session,
\* the computed options contain full_payment and payment_plan, and contain
\* settlement exactly when days overdue is a number greater than 90 (not at
\* 90, not when it is missing).
C16_OfferSet ==
    [][OptionsComputed
          => LET options == Get(context', "payment_options", None).v
             IN  /\ {"full_payment", "payment_plan"} \subseteq DOMAIN options
                 /\ DOMAIN options
                        \subseteq {"full_payment", "payment_plan", "settlement"}
                 /\ "settlement" \in DOMAIN options
                        <=> (DaysOverdue.t = "int" /\ DaysOverdue.v > 90)
                 /\ result'.data = options]_vars

\* C16 witness: options computed at exactly 90 days overdue, without settlement
C16_Witness ==
    /\ call.tool = "get_customer_options"
    /\ Returned /\ result.success
    /\ DaysOverdue = I(90)
    /\ DOMAIN Options.v = {"full_payment", "payment_plan"}

\* C17: the amounts, in cents, of the computed options: full_payment is the
\* balance; payment_plan is the cent nearest to balance / 6 when the balance
\* is positive and 0 otherwise; settlement, when offered, is the cent nearest
\* to 0.7 * balance with discount_percentage 30. (600.00, 30 days) gives
\* full_payment 600.00 and payment_plan 100.00; (1000.00, 120 days) gives
\* settlement 700.00.
C17_OfferAmounts ==
    [][OptionsComputed
          => LET options == Get(context', "payment_options", None).v
                 b == Balance.v
             IN  /\ options["full_payment"]["amount"] = F(b)
                 /\ options["payment_plan"]["amount"].t = "float"
                 /\ b > 0 => 2 * Abs(6 * options["payment_plan"]["amount"].v - b)
                                <= 6
                 /\ b <= 0 => options["payment_plan"]["amount"] = F(0)
                 /\ "settlement" \in DOMAIN options
                        => /\ options["settlement"]["amount"].t = "float"
                           /\ 2 * Abs(10 * options["settlement"]["amount"].v
                                       - 7 * b) <= 10
                           /\ options["settlement"]["discount_percentage"] = I(30)
                 /\ (b = 60000 /\ DaysOverdue = I(30))
                        => /\ options["full_payment"]["amount"] = F(60000)
                           /\ options["payment_plan"]["amount"] = F(10000)
                 /\ (b = 100000 /\ DaysOverdue = I(120))
                        => options["settlement"]["amount"] = F(70000)]_vars

\* C17 witness: options computed for a positive balance whose monthly amount
\* falls halfway between two cents
C17_Witness ==
    /\ call.tool = "get_customer_options"
    /\ Returned /\ result.success
    /\ Balance = F(3)
    /\ Options.v["settlement"]["amount"] = F(2)
    /\ Options.v["payment_plan"]["amount"] = F(1)

----------------------------------------------------------------------------
(* Properties of the media bridge *)

HandlerReturned == handler = "returned"
BothLoopsEnded == ~Running(twilio_task) /\ ~Running(cartesia_task)
WebsocketClosed == websocket = "DISCONNECTED"
\* the voice-engine connection is closed, or was never created
CartesiaClosed == cartesia_ws \in {"None", "CLOSED"}

\* C18: whenever handle_cartesia_stream has returned -- whichever loop ended
\* first, whatever failed -- neither loop is running and both the telephony
\* websocket and the voice-engine websocket are closed (a voice-engine
\* websocket that could not be created counts as closed); and the closes of
\* the finally block leave a connection that is already closed as it is.
C18_BothClosedOnReturn ==
    /\ [](HandlerReturned
            => BothLoopsEnded /\ WebsocketClosed /\ CartesiaClosed)
    /\ [][/\ (handler = "cleanup_cartesia" /\ cartesia_ws = "CLOSED")
                => (cartesia_ws' = "CLOSED" /\ handler' = "cleanup_websocket")
          /\ (handler = "cleanup_websocket" /\ websocket = "DISCONNECTED")
                => (websocket' = "DISCONNECTED" /\ handler' = "returned")]_vars

\* C18 witness: the voice engine closed first, the telephony loop was
\* cancelled, and the handler returned with both connections closed
C18_Witness ==
    /\ HandlerReturned
    /\ cartesia_task.pc = "done" /\ twilio_task.pc = "cancelled"
    /\ engine.closed_by = "engine"
    /\ WebsocketClosed /\ cartesia_ws = "CLOSED"

\* no frame is queued unread or held by a loop
NoFrameInFlight ==
    /\ cartesia_in = <<>>
    /\ twilio_task.hold = <<>> /\ cartesia_task.hold = <<>>
    /\ engine.echoed = Len(cartesia_out)

\* C19: against a telephony side that sends start, three media frames and
\* stop, and a voice engine that echoes every chunk as a binary frame, the
\* bridge has, whenever it returns, written exactly three media frames to the
\* telephony websocket, each carrying the stream id of the start frame, closed
\* both connections and left no frame in flight -- whatever the interleaving.
C19_EchoRelaysThree ==
    (engine.scenario = "echo" /\ HandlerReturned /\ twilio_task.pc = "done"
     /\ twilio_in = <<>>)
        => /\ Len(twilio_out) = 3
           /\ \A i \in 1..Len(twilio_out) :
                  twilio_out[i] = TwMsg(S("MZ1"), Base64(i))
           /\ WebsocketClosed /\ CartesiaClosed
           /\ NoFrameInFlight

\* C20: when the voice engine closed its connection while the bridge was
\* streaming, the bridge has, by the time it returns, closed the telephony
\* websocket and reported a non-normal termination to the call lifecycle
\* exactly once.
C20_EngineCloseReportedOnce ==
    (engine.closed_by = "engine" /\ HandlerReturned)
        => /\ WebsocketClosed
           /\ Len(reports) = 1
           /\ reports[1] # "normal"

\* the telephony frames of the scenario, and those already received
ScriptOf(name) == (CHOOSE sc \in Scenarios : sc.name = name).script
Received ==
    SubSeq(ScriptOf(engine.scenario), 1,
           Len(ScriptOf(engine.scenario)) - Len(twilio_in))
\* the stream ids the start frames received so far carried
CapturedStreamIds ==
    {Received[i].streamSid :
        i \in {j \in 1..Len(Received) : Received[j].event = "start"}}
\* the step reads a voice-engine message that carries audio
ReadsAudio ==
    /\ cartesia_task.pc = "receive"
    /\ cartesia_in # <<>> /\ cartesia_in' = Tail(cartesia_in)
    /\ Present(Head(cartesia_in).audio)

\* C21: every media frame written to the telephony websocket, and every one
\* about to be written, carries a stream id that a start frame already
\* received assigned; voice-engine audio read while no stream id is known is
\* dropped on the spot, and the only frame ever written is the one just read.
C21_TaggedOrDropped ==
    /\ [](/\ \A i \in 1..Len(twilio_out) :
                 /\ twilio_out[i].event = "media"
                 /\ twilio_out[i].streamSid \in CapturedStreamIds
          /\ cartesia_task.hold # <<>>
                 => cartesia_task.hold[1].streamSid \in CapturedStreamIds)
    /\ [][/\ (ReadsAudio /\ ~Truthy(stream_state.stream_sid))
                => (cartesia_task' = Task("receive", <<>>)
                    /\ twilio_out' = twilio_out)
          /\ twilio_out' # twilio_out
                => (/\ cartesia_task.pc = "send"
                    /\ twilio_out' = Append(twilio_out, cartesia_task.hold[1])
                    /\ cartesia_task'.hold = <<>>)]_vars

\* C21 witness: the echo of the first chunk came before the start frame and
\* was dropped; the first frame written is the echo of the second chunk
C21_Witness ==
    /\ engine.scenario = "early_media"
    /\ engine.echoed >= 2
    /\ Len(twilio_out) >= 1
    /\ twilio_out[1] = TwMsg(S("MZ1"), Base64(2))

\* C22: no media is relayed in either direction before a start frame has
\* assigned the stream id; in particular a telephony media frame received
\* before any start frame is not forwarded to the voice engine.
C22_NoRelayBeforeStart ==
    (cartesia_out # <<>> \/ twilio_out # <<>>) => CapturedStreamIds # {}

\* a is b with some elements left out
RECURSIVE IsSubseq(_, _)
IsSubseq(a, b) ==
    IF a = <<>> THEN TRUE
    ELSE IF b = <<>> THEN FALSE
    ELSE IF Head(a) = Head(b) THEN IsSubseq(Tail(a), Tail(b))
    ELSE IsSubseq(a, Tail(b))

Indices(seq, Keep(_)) == {i \in 1..Len(seq) : Keep(seq[i])}
RECURSIVE Filtered(_, _)
\* the elements of seq at the positions in idx, in order
Filtered(seq, idx) ==
    IF seq = <<>> THEN <<>>
    ELSE (IF Len(seq) \in idx THEN Filtered(SubSeq(seq, 1, Len(seq) - 1), idx)
                                       \o <<seq[Len(seq)]>>
          ELSE Filtered(SubSeq(seq, 1, Len(seq) - 1), idx))

\* the payloads of the telephony media frames received so far, in order
IsMedia(f) == f.event = "media" /\ f.payload.t = "str" /\ f.payload.enc = "base64"
ReceivedMedia ==
    LET kept == Filtered(Received, Indices(Received, IsMedia))
    IN  [i \in 1..Len(kept) |-> kept[i].payload]
\* the audio the voice engine has sent so far, in order: the echoes of the
\* chunks it was sent, or the audio its own k-th message can carry
EngineAudio ==
    IF engine.mode = "echo"
    THEN [i \in 1..engine.echoed |-> cartesia_out[i].user_audio_chunk]
    ELSE [i \in 1..engine.sent |-> Base64(i)]

\* C23: in each direction the relayed frames keep the order of arrival: the
\* payloads written to the telephony websocket are a subsequence of the audio
\* the voice engine sent, the chunks sent to the voice engine a subsequence
\* of the telephony media frames received; a loop reads its next frame only
\* when it holds none, so each loop has at most one frame in flight.
C23_OrderAndOneInFlight ==
    /\ [](/\ IsSubseq([i \in 1..Len(twilio_out) |-> twilio_out[i].payload],
                      EngineAudio)
          /\ IsSubseq([i \in 1..Len(cartesia_out) |->
                           cartesia_out[i].user_audio_chunk], ReceivedMedia)
          /\ Len(twilio_task.hold) <= 1 /\ Len(cartesia_task.hold) <= 1
          /\ twilio_task.hold # <<>> <=> twilio_task.pc = "send"
          /\ cartesia_task.hold # <<>> <=> cartesia_task.pc = "send")
    /\ [][/\ twilio_in' # twilio_in => twilio_task.hold = <<>>
          /\ (cartesia_in # <<>> /\ cartesia_in' = Tail(cartesia_in))
                => cartesia_task.hold = <<>>]_vars

\* C23 witness: three chunks went to the voice engine and their three echoes
\* to the telephony side, both in the order of arrival
C23_Witness ==
    /\ engine.scenario = "echo"
    /\ [i \in 1..Len(cartesia_out) |-> cartesia_out[i].user_audio_chunk]
            = <<Base64(1), Base64(2), Base64(3)>>
    /\ [i \in 1..Len(twilio_out) |-> twilio_out[i].payload]
            = <<Base64(1), Base64(2), Base64(3)>>

----------------------------------------------------------------------------
(* Properties of the telephony webhooks *)

\* the step is an incoming-call notification that named its call and caller
\* and got a response document
IncomingAnswered ==
    /\ call'.tool = "twilio_incoming"
    /\ Truthy(call'.call_sid) /\ Truthy(call'.from_number)
    /\ result'.kind = "twiml"

\* no account has this phone number
MatchesNoAccount(from_number) ==
    \A c \in Customers : c.phone_number # from_number.v

\* the verbs of a response document that connect the call to a stream
StreamVerbs(response) ==
    {i \in DOMAIN response.verbs : response.verbs[i].verb = "Connect/Stream"}

\* C24: an incoming-call notification whose caller number matches no account
\* is answered with the fixed could-not-match message followed by hang-up; no
\* call record is created and no stream-connection instruction is returned.
C24_UnknownCallerTurnedAway ==
    [][(IncomingAnswered /\ MatchesNoAccount(call'.from_number))
        => /\ result'.verbs = <<Say(CouldNotMatch), Hangup>>
           /\ calls' = calls
           /\ StreamVerbs(result') = {}]_vars

\* an unknown caller was turned away for a call that has no record
C24_Witness ==
    /\ call.tool = "twilio_incoming"
    /\ call.call_sid = S("CA2")
    /\ Truthy(call.from_number) /\ MatchesNoAccount(call.from_number)
    /\ result = TwiML(<<Say(CouldNotMatch), Hangup>>)
    /\ "CA2" \notin DOMAIN calls

\* the call the session belongs to
SessionCall == context["call_sid"].v

\* the call of the session was finalized: its record is completed
SessionCallCompleted ==
    /\ SessionCall \in DOMAIN calls
    /\ calls[SessionCall].status = "completed"

\* C25: if a choice was recorded during the call (the session outcome is
\* payment_arranged), then once the call has terminated the outcome of the
\* persisted call record is payment_arranged.
C25_OutcomeFlushed ==
    (Outcome = S("payment_arranged") /\ SessionCallCompleted)
        => calls[SessionCall].outcome = S("payment_arranged")

\* the terminal statuses of a call that failed, as the notifications name them
FailureCallStatuses == {S("failed"), S("Busy"), S("no-answer")}

\* the step is a status notification with a failure status for a call that
\* has a record, and the handler reported the update
FailureNotified ==
    /\ call'.tool = "twilio_status"
    /\ Truthy(call'.call_sid) /\ call'.call_sid.v \in DOMAIN calls
    /\ call'.call_status \in FailureCallStatuses
    /\ result' = Json("updated")

\* C26: after a status notification with a failure terminal status (failed,
\* busy or no-answer) for an existing call, the status of the persisted call
\* record is a failure status and no longer in_progress.
C26_FailureStatusPersisted ==
    [][FailureNotified
        => /\ calls'[call'.call_sid.v].status = "failed"
           /\ calls'[call'.call_sid.v].status # "in_progress"]_vars

\* the telephony side has sent stop or closed, or the voice-engine connection
\* is closed
TerminationTriggered ==
    \/ \E i \in DOMAIN twilio_in : twilio_in[i].event \in {"stop", "disconnect"}
    \/ twilio_task.pc = "close"
    \/ websocket = "DISCONNECTED"
    \/ cartesia_ws = "CLOSED"

\* the handler is over, no loop is running and both connections are closed
HandlerEnded == handler \in {"returned", "raised"}
BridgeTerminated ==
    HandlerEnded /\ BothLoopsEnded /\ WebsocketClosed /\ CartesiaClosed

\* C27: under fair scheduling, once the telephony side has sent stop or
\* closed, or the voice-engine connection has closed, the bridge eventually
\* terminates: the loop still running is cancelled, both loops have ended and
\* both connections are closed.
C27_EventuallyTerminates == TerminationTriggered ~> BridgeTerminated

\* the voice engine closed on a telephony side that had gone silent, and the
\* bridge terminated by cancelling the loop that was waiting for a frame
C27_Witness ==
    /\ engine.scenario = "silent" /\ engine.closed_by = "engine"
    /\ twilio_in = <<>> /\ twilio_task.pc = "cancelled"
    /\ cartesia_task.pc = "done"
    /\ BridgeTerminated

\* a stop frame has been read
StopRead == \E i \in DOMAIN Received : Received[i].event = "stop"

\* the chunks the media frames read so far are forwarded as
ChunksRead ==
    {UserAudioChunk(b64encode(b64decode(Received[i].payload))) :
        i \in {j \in DOMAIN Received :
                  /\ Received[j].event = "media"
                  /\ Present(Received[j].payload)
                  /\ ~b64decodeRaises(Received[j].payload)}}

\* C28: once the inbound loop has read a stop frame, that frame is the last
\* one it reads: the loop is closing the voice-engine connection or has ended,
\* the voice-engine connection is closed when it has ended, and nothing but
\* the media read before the stop has been forwarded to the voice engine.
C28_StopEndsInbound ==
    StopRead
        => /\ Received[Len(Received)].event = "stop"
           /\ twilio_task.pc \in {"close", "done", "cancelled"}
           /\ ~Running(twilio_task) => cartesia_ws = "CLOSED"
           /\ \A i \in DOMAIN cartesia_out : cartesia_out[i] \in ChunksRead

\* the loop ended on a stop frame with a media frame still unread behind it
C28_Witness ==
    /\ engine.scenario = "early_media"
    /\ StopRead /\ twilio_in = <<Media(3)>>
    /\ twilio_task.pc = "done"
    /\ cartesia_ws = "CLOSED" /\ engine.closed_by = "bridge"
    /\ Len(cartesia_out) = 2

\* the handler is past its setup and has no voice-engine connection
ConnectFailed == handler # "accepted" /\ cartesia_ws = "None"

\* C29: if the voice-engine connection cannot be established, the bridge goes
\* straight to closing: no relay loop is started, no telephony frame is read
\* and no frame is relayed in either direction, and once the handler is over
\* the telephony connection is closed.
C29_ConnectFailureClosesBridge ==
    ConnectFailed
        => /\ twilio_task = NoTask /\ cartesia_task = NoTask
           /\ twilio_in = ScriptOf(engine.scenario)
           /\ twilio_out = <<>> /\ cartesia_out = <<>> /\ cartesia_in = <<>>
           /\ handler \in {"cleanup_cartesia", "cleanup_websocket", "returned",
                           "raised"}
           /\ HandlerEnded => WebsocketClosed

\* the handler returned through its finally block without a voice-engine
\* connection, the telephony frames unread
C29_Witness ==
    /\ ConnectFailed /\ HandlerReturned
    /\ WebsocketClosed
    /\ twilio_task = NoTask /\ cartesia_task = NoTask
    /\ twilio_in = ScriptEcho /\ cartesia_out = <<>>

\* C30: the bridge handler never lets a fault escape: whatever fails -- a
\* relay loop, the connection setup, the closing of a connection -- and
\* whichever loop is cancelled, handle_cartesia_stream does not end by
\* raising.
C30_NoFaultEscapes == handler # "raised"

\* the step reads a telephony frame whose event the inbound loop does not know
ReadsUnknownFrame ==
    /\ twilio_task.pc = "receive"
    /\ twilio_in # <<>> /\ twilio_in' = Tail(twilio_in)
    /\ Head(twilio_in).event \notin
           {"connected", "start", "media", "stop", "not_json", "disconnect"}

\* the step reads a voice-engine text message that is not JSON, or one whose
\* type the outbound loop does not know
ReadsUnknownMessage ==
    /\ cartesia_task.pc = "receive"
    /\ cartesia_in # <<>> /\ cartesia_in' = Tail(cartesia_in)
    /\ \/ Head(cartesia_in).kind = "text"
       \/ /\ Head(cartesia_in).kind = "json"
          /\ Head(cartesia_in).type \notin {"audio", "pong", "conversation_ack"}

\* C31: a frame of unrecognized type on either connection, and a voice-engine
\* text message that is not valid JSON, is ignored: reading it changes no
\* field of the session or of the stream state, relays nothing, and leaves
\* the loop that read it reading and the handler where it was.
C31_UnknownFramesIgnored ==
    [][/\ ReadsUnknownFrame
            => /\ twilio_task' = Task("receive", <<>>)
               /\ UNCHANGED <<stream_state, context, cartesia_out, twilio_out,
                              cartesia_task, handler, websocket, cartesia_ws>>
       /\ ReadsUnknownMessage
            => /\ cartesia_task' = Task("receive", <<>>)
               /\ UNCHANGED <<stream_state, context, cartesia_out, twilio_out,
                              twilio_task, handler, websocket, cartesia_ws>>]_vars

\* a mark frame was read after the start frame and the loop reads on
C31_Witness ==
    /\ engine.scenario = "restart" /\ handler = "streaming"
    /\ Len(Received) = 3 /\ Received[3] = Mark
    /\ twilio_task = Task("receive", <<>>)
    /\ stream_state.stream_sid = S("MZ1") /\ cartesia_out = <<>>

\* C32: once a start frame has assigned the call id and the stream id in the
\* stream state of the bridge, no later frame changes them: a second start
\* frame that carries other identifiers does not overwrite them.
C32_IdsImmutable ==
    [][/\ Truthy(stream_state.call_sid)
            => stream_state'.call_sid = stream_state.call_sid
       /\ Truthy(stream_state.stream_sid)
            => stream_state'.stream_sid = stream_state.stream_sid]_vars

----------------------------------------------------------------------------
(* Properties of interleaved calls *)

\* the step is the return of a verify call whose lookup matched no customer
MismatchReturns ==
    \E t \in Coroutines :
        /\ coroutines[t].pc = "verify_identity"
        /\ coroutines'[t].pc = "idle"
        /\ call'.tool = "verify_account" /\ call'.directory = "none"

\* C33: when verify calls on one session interleave at the directory lookup,
\* every failed verification still raises verification_attempts by one: no
\* update is lost, so two concurrent mismatches on a fresh session leave the
\* counter at 2.
C33_NoLostAttempt ==
    [][MismatchReturns
        => context'["verification_attempts"].v
               = context["verification_attempts"].v + 1]_vars

\* how many of the first i transcript entries belong to the call of entry i
RankInCall(i) ==
    Cardinality({j \in 1..i : call_transcript_entries[j].call_id
                                 = call_transcript_entries[i].call_id})

\* C36: the transcript entries of one call carry the sequence numbers 1, 2,
\* 3, ... in insertion order, without duplicates and without gaps, also when
\* two add_transcript_entry calls for the call interleave between reading the
\* current maximum and inserting.
C36_SequenceNumbersDense ==
    \A i \in DOMAIN call_transcript_entries :
        call_transcript_entries[i].sequence_number = RankInCall(i)

----------------------------------------------------------------------------
(* Further properties of the tools *)

\* C34: with the CallRepository that ArcherCallAgent hands to
\* ProcessPaymentTool, a successful process_payment for a call that has a
\* record leaves the payment_arrangement entry merged into the extra data of
\* that record and returns recorded true.
C34_WiredRepositoryRecords ==
    (/\ call_repo = "CallRepository"
     /\ call.tool = "process_payment" /\ Returned /\ result.success
     /\ SessionCall \in DOMAIN calls)
        => /\ result.data["recorded"] = B(TRUE)
           /\ "payment_arrangement" \in DOMAIN calls[SessionCall].extra_data

----------------------------------------------------------------------------
(* Further properties of the telephony webhooks *)

\* the status notifications that name a call and a status
StatusRequests ==
    {r \in [call_sid : StatusCallSidInputs, call_status : CallStatusInputs,
            call_duration : CallDurationInputs, now : UtcNowInputs] :
        Truthy(r.call_sid) /\ Truthy(r.call_status)}

\* the repository use that fails is reached: the lookup always, the commit
\* when the call has a record
FailureHit(r, db) ==
    \/ db = "lookup"
    \/ db = "commit" /\ r.call_sid.v \in DOMAIN calls

\* C35: the status-update handler never raises on a repository error: when
\* the lookup or the update of the call record fails, the handler returns
\* the status value error and the call table is left as it was; and no
\* status notification that names a call and a status is answered by a raise.
C35_StatusErrorsContained ==
    /\ [](\A r \in StatusRequests : \A db \in DbInputs :
            LET out == twilio_status(calls, r.call_sid, r.call_status,
                                     r.call_duration, r.now, db)
            IN  /\ out.response.kind = "json"
                /\ FailureHit(r, db)
                     => out.response = Json("error") /\ out.calls = calls)
    /\ [][(/\ call'.tool = "twilio_status"
           /\ Truthy(call'.call_sid) /\ Truthy(call'.call_status))
            => /\ result'.kind = "json"
               /\ result' = Json("error") => calls' = calls]_vars

\* a completed notification for the call of the session met a repository
\* error: the handler answered error and the record is still in progress
C35_Witness ==
    /\ call.tool = "twilio_status"
    /\ call.call_sid = S("CA1") /\ call.call_status = S("completed")
    /\ result = Json("error")
    /\ calls["CA1"].status = "in_progress"

----------------------------------------------------------------------------
(* Frame conditions of the tools *)

\* C37: a verify_account call that ends with a directory error changes no
\* field of the session; in particular verification_attempts is not raised,
\* so directory errors never consume an attempt.
C37_DirectoryErrorChangesNothing ==
    [][(call'.tool = "verify_account" /\ call'.directory = "raised")
        => context' = context]_vars

\* a directory error followed a failed attempt and the counter still reads 1
C37_Witness ==
    /\ call.tool = "verify_account" /\ call.directory = "raised"
    /\ Returned /\ ~result.success /\ result.should_end_call
    /\ Attempts = 1 /\ ~Verified

\* C38: a successful verify_account leaves verification_attempts,
\* payment_options and call_outcome as they were -- failed attempts made
\* before the success are not reset -- and a mismatching verify_account on a
\* session that is already verified still counts as a failed attempt while
\* verified stays true.
C38_SuccessKeepsCounters ==
    [][/\ (call'.tool = "verify_account" /\ call'.directory = "found")
            => /\ Get(context', "verification_attempts", None)
                    = Get(context, "verification_attempts", None)
               /\ Get(context', "payment_options", None) = Options
               /\ Get(context', "call_outcome", None) = Outcome
       /\ (call'.tool = "verify_account" /\ call'.directory = "none"
           /\ Verified)
            => /\ Truthy(Get(context', "verified", None))
               /\ context'["verification_attempts"].v = Attempts + 1]_vars

\* a verified session with its options computed took a mismatching verify:
\* it is still verified and one failed attempt is counted
C38_Witness ==
    /\ call.tool = "verify_account" /\ call.directory = "none"
    /\ Verified /\ Truthy(Options)
    /\ Attempts = 1

\* the payment types process_payment has a confirmation text for
RecognisedPaymentTypes == {"sms_link", "bank_transfer", "payment_plan"}

\* the step is a process_payment call with a payment type that is not
\* recognised, on a verified session, for an option that was offered
UnrecognisedTypeChosen ==
    /\ call'.tool = "process_payment"
    /\ call'.payment_type \notin RecognisedPaymentTypes
    /\ Verified /\ OptionOffered(call'.option)

\* C39: process_payment does not reject a payment type outside sms_link,
\* bank_transfer and payment_plan: on a verified session and for an offered
\* option it succeeds with the generic confirmation, attempts the
\* arrangement write with that payment type when the session has a call_sid,
\* and sets call_outcome to payment_arranged.
C39_UnrecognisedTypeAccepted ==
    [][UnrecognisedTypeChosen
        => /\ result'.kind = "returned" /\ result'.success
           /\ result'.message.id = "confirm_recorded"
           /\ result'.data["payment_type"] = S(call'.payment_type)
           /\ Truthy(Get(context, "call_sid", None))
                => /\ Len(call'.repo) = 1
                   /\ call'.repo[1].metadata["payment_arrangement"]
                          ["payment_type"] = S(call'.payment_type)
           /\ Get(context', "call_outcome", None) = S("payment_arranged")]_vars

\* a payment by cash was accepted and written to the call record
C39_Witness ==
    /\ call.tool = "process_payment" /\ call.payment_type = "cash"
    /\ Returned /\ result.success /\ result.data["recorded"] = B(TRUE)
    /\ Outcome = S("payment_arranged")
    /\ calls[SessionCall].extra_data["payment_arrangement"]["payment_type"]
           = S("cash")

\* the step is a status notification
StatusNotified == call'.tool = "twilio_status"

\* the record differs from what it was in its extra data at most, and there
\* in the status entry at most
OnlyStatusEntryWritten(old, new) ==
    /\ [new EXCEPT !.extra_data = old.extra_data] = old
    /\ \A k \in DOMAIN old.extra_data :
          k # "status" => (k \in DOMAIN new.extra_data
                           /\ new.extra_data[k] = old.extra_data[k])
    /\ DOMAIN new.extra_data \subseteq DOMAIN old.extra_data \cup {"status"}

====
